---- MODULE Spec2Model ----
(***************************************************************************)
(* Model of the imageLabeler repository: the bounded WorkerPool            *)
(* (src/src/utils/workerPool.ts) and the polling application built on it   *)
(* (src/src/main.ts, src/unnamed/part_005, PhotoPrismClient).              *)
(*                                                                         *)
(* JavaScript runs every synchronous stretch of code to completion, so one *)
(* action is one such stretch: a call made by the driver, or one callback  *)
(* of a promise chain.  Awaited I/O is the gap between two actions.        *)
(*                                                                         *)
(* Two specifications share the pool definitions:                          *)
(*   Spec     - the pool under an arbitrary caller: tasks may fail, and    *)
(*              running tasks and the error observer may enqueue;          *)
(*   PollSpec - PngTaggerApp.startPolling driving the pool with the        *)
(*              per-candidate tasks of runPollCycle.                       *)
(***************************************************************************)
EXTENDS Integers, Sequences, FiniteSets, TLC

\* ------------------------------------------------------------------ bounds
MaxTasks == 3
MaxWaiters == 2
MaxCycles == 2
MaxPollTasks == 2
MaxFaults == 1
MaxLabels == 2
MaxItems == 2
MaxElapsed == 3
MaxLate == 1
MaxTextLen == 5
MaxSegments == 2
MaxData == 3
MaxChunks == 2
MaxTicks == 3
MaxChanges == 1
MaxAttempts == 3
MaxTimeout == 3
MaxInterval == 2
MaxSize == 2
MaxEntries == 2

TaskIds == 1..MaxTasks
\* concurrency values handed to the constructor, in halves (3 is 1.5)
RawConcurrencyHalves == -2..5
\* the waiter id of the polling loop's own onIdle() call
PollerWaiter == 0
\* appEnv.pollIntervalMs, in the time unit of the model's clock
pollIntervalMs == 2

VARIABLES
  requested,         \* history: the concurrency handed to the constructor, in halves
  concurrency,       \* WorkerPool.concurrency
  onError,           \* TRUE when an error observer was passed to the constructor
  queue,             \* WorkerPool.queue: task ids, oldest first
  activeCount,       \* WorkerPool.activeCount
  idleResolvers,     \* WorkerPool.idleResolvers: waiter ids, oldest first
  taskState,         \* position of each task's promise chain
  nextTask,          \* next unused task id
  nextWaiter,        \* next unused waiter id
  enqueueOrder,      \* history: task ids in the order enqueue() was called
  startOrder,        \* history: task ids in the order runNext() shifted them
  enqueuedBy,        \* history: who called enqueue() for each task
  observed,          \* history: failures handed to the error observer
  consoleErrors,     \* history: failures written to console.error
  resolvedLog,       \* history: the pool as it was when an idle promise resolved
  lastFinally,       \* history: the last run of the finally callback
  variant,           \* which processResolvedPhoto is built: "main" or "part_005"
  pollPc,            \* position of startPolling
  cycle,             \* number of poll cycles started
  inFlightPhotoUids, \* PngTaggerApp.inFlightPhotoUids
  taskUid,           \* photo.uid captured by each enqueued closure
  taskCycle,         \* history: the poll cycle that enqueued each task
  taskFile,          \* history: the file name captured by each enqueued closure
  taskPc,            \* position of each task inside processResolvedPhoto
  labelsLeft,        \* derived labels the task has still to write
  labelCount,        \* labels.length of the task, 0 before the labels are parsed
  opLog,             \* history: what each task did, in order
  remoteMarker,      \* remote index: the photos that carry the marker label
  faults,            \* number of remote calls that have failed so far
  clock,             \* the last reading of Date.now(), counted from the moment
                     \* the current iteration of the polling loop began
  startedAt,         \* startPolling: const startedAt
  elapsedMs,         \* startPolling: const elapsedMs
  waitMs,            \* startPolling: const waitMs
  queryFailed,       \* history: the poll cycles whose caption-empty query failed
  text,              \* the argument of a text function, as a sequence of characters
  fn,                \* the text function that was called, "none" before the call
  out,               \* what the call returned
  lookup,            \* a run of the watcher's processFile from the uid lookup on
  stable,            \* a run of waitForStable
  watcher            \* a run of NextcloudFolderWatcher

poolVars == <<requested, concurrency, onError, queue, activeCount, idleResolvers,
              taskState, nextTask, nextWaiter, enqueueOrder, startOrder,
              enqueuedBy, observed, consoleErrors, resolvedLog, lastFinally>>

paceVars == <<clock, startedAt, elapsedMs, waitMs>>

helperVars == <<lookup, stable, watcher>>

appVars == <<variant, pollPc, cycle, inFlightPhotoUids, taskUid, taskCycle, taskFile,
             taskPc, labelsLeft, labelCount, opLog, remoteMarker, faults, paceVars,
             queryFailed, text, fn, out, helperVars>>

textVars == <<text, fn, out, helperVars>>

vars == <<poolVars, appVars>>

\* ----------------------------------------------------------------- helpers
Max(a, b) == IF a >= b THEN a ELSE b

Range(s) == {s[i] : i \in 1..Len(s)}

\* tasks that were enqueued and whose finally callback has not run
Unfinished(st) == {t \in TaskIds : st[t] \notin {"new", "done"}}

\* tasks that were shifted from the queue and whose finally callback has not run
Outstanding(st) == {t \in TaskIds : st[t] \notin {"new", "queued", "done"}}

\* no run of processFile and none of waitForStable
LookupOff ==
  [pc |-> "off", attempts |-> 0, i |-> 0, log |-> <<>>, result |-> "",
   labels |-> 0, writes |-> 0]
StableOff ==
  [pc |-> "off", timeoutMs |-> 0, pollIntervalMs |-> 0, now |-> 0, start |-> 0,
   lastSize |-> -1, reads |-> <<>>, cause |-> "none"]
WatcherOff ==
  [pc |-> "off", dry |-> FALSE, remote |-> <<>>, seen |-> <<>>, saved |-> <<>>,
   ticks |-> <<>>,
   timer |-> FALSE, changes |-> 0, tagged |-> <<>>]

\* ------------------------------------------------------------- WorkerPool
\* Math.floor of a value given in halves
Floor(h) == h \div 2

\* constructor: this.concurrency = Math.max(1, Math.floor(concurrency))
WorkerPoolConcurrencyBug(h) == Floor(h)
WorkerPoolConcurrency(h) == Max(1, Floor(h))

\* the loop condition of runNext
MayStartBug(a, q) == a <= concurrency /\ Len(q) > 0
MayStart(a, q) == a < concurrency /\ Len(q) > 0

\* queue.shift(): the oldest task and the rest of the queue
QueueShiftBug(q) == [task |-> q[Len(q)], rest |-> SubSeq(q, 1, Len(q) - 1)]
QueueShift(q) == [task |-> Head(q), rest |-> Tail(q)]

\* the idle test of onIdle and of the tail of runNext
IdleCondBug(q, a) == Len(q) = 0
IdleCond(q, a) == Len(q) = 0 /\ a = 0

\* the finally callback's  this.activeCount -= 1 , run whether the task's
\* promise was fulfilled or rejected
AfterSettleBug(a, failed) == IF failed THEN a ELSE a - 1
AfterSettle(a, failed) == a - 1

\* the while loop of runNext: shift and start tasks while allowed
RECURSIVE RunLoop(_, _, _)
RunLoop(q, a, started) ==
  IF MayStart(a, q)
  THEN LET s == QueueShift(q)
       IN RunLoop(s.rest, a + 1, Append(started, s.task))
  ELSE [queue |-> q, activeCount |-> a, started |-> started]

\* what a resolved idle promise saw
Snapshot(w, q, a, st, deferred) ==
  [waiter |-> w, queued |-> Len(q), active |-> a,
   unfinished |-> Cardinality(Unfinished(st)),
   done |-> {t \in TaskIds : st[t] = "done"}, deferred |-> deferred]

\* the pool and its histories as one value, so that calls can be chained
Pool ==
  [queue |-> queue, activeCount |-> activeCount, taskState |-> taskState,
   idleResolvers |-> idleResolvers, startOrder |-> startOrder,
   resolvedLog |-> resolvedLog, started |-> <<>>]

\* this.idleResolvers.splice(0): the resolvers taken out of the array
SpliceBug(resolvers) == IF resolvers = <<>> THEN <<>> ELSE <<Head(resolvers)>>
Splice(resolvers) == resolvers

\* runNext as a whole: the loop, then the release of the idle waiters
RunNext(p) ==
  LET r == RunLoop(p.queue, p.activeCount, <<>>)
      pendingResolvers == Splice(p.idleResolvers)
      st == [t \in TaskIds |->
               IF t \in Range(r.started) THEN "started" ELSE p.taskState[t]]
      idle == IdleCond(r.queue, r.activeCount)
  IN [queue |-> r.queue,
      activeCount |-> r.activeCount,
      taskState |-> st,
      idleResolvers |-> IF idle
                        THEN SubSeq(p.idleResolvers, Len(pendingResolvers) + 1,
                                    Len(p.idleResolvers))
                        ELSE p.idleResolvers,
      startOrder |-> p.startOrder \o r.started,
      resolvedLog |-> IF idle
                      THEN p.resolvedLog \cup
                           {Snapshot(pendingResolvers[i], r.queue, r.activeCount, st, TRUE) :
                              i \in 1..Len(pendingResolvers)}
                      ELSE p.resolvedLog,
      started |-> r.started]

\* enqueue(task): push, then runNext
EnqueueOnBug(p, t) == RunNext([p EXCEPT !.taskState[t] = "queued"])
EnqueueOn(p, t) ==
  RunNext([p EXCEPT !.queue = Append(@, t), !.taskState[t] = "queued"])

\* the pool after a chain of calls that produced p
ApplyPool(p) ==
  /\ queue' = p.queue
  /\ activeCount' = p.activeCount
  /\ taskState' = p.taskState
  /\ idleResolvers' = p.idleResolvers
  /\ startOrder' = p.startOrder
  /\ resolvedLog' = p.resolvedLog

DoEnqueue(t, who) ==
  /\ ApplyPool(EnqueueOn(Pool, t))
  /\ nextTask' = t + 1
  /\ enqueueOrder' = Append(enqueueOrder, t)
  /\ enqueuedBy' = [enqueuedBy EXCEPT ![t] = who]

PoolInit ==
  /\ requested \in RawConcurrencyHalves
  /\ concurrency = WorkerPoolConcurrency(requested)
  /\ queue = <<>>
  /\ activeCount = 0
  /\ idleResolvers = <<>>
  /\ taskState = [t \in TaskIds |-> "new"]
  /\ nextTask = 1
  /\ nextWaiter = 1
  /\ enqueueOrder = <<>>
  /\ startOrder = <<>>
  /\ enqueuedBy = [t \in TaskIds |-> "nobody"]
  /\ observed = {}
  /\ consoleErrors = {}
  /\ resolvedLog = {}
  /\ lastFinally = [task |-> 0, failed |-> FALSE, before |-> 0, queuedBefore |-> 0,
                    started |-> <<>>, after |-> 0, others |-> TRUE]

\* a caller outside the pool enqueues a task
Enqueue ==
  /\ nextTask <= MaxTasks
  /\ DoEnqueue(nextTask, "caller")
  /\ UNCHANGED appVars
  /\ UNCHANGED <<requested, concurrency, onError, nextWaiter, observed, consoleErrors, lastFinally>>

\* Promise.resolve().then(task): the task function is called
Invoke(t) ==
  /\ taskState[t] = "started"
  /\ taskState' = [taskState EXCEPT ![t] = "running"]
  /\ UNCHANGED appVars
  /\ UNCHANGED <<requested, concurrency, onError, queue, activeCount, idleResolvers, nextTask,
                 nextWaiter, enqueueOrder, startOrder, enqueuedBy, observed,
                 consoleErrors, resolvedLog, lastFinally>>

\* a running task enqueues another task
TaskEnqueue(t) ==
  /\ taskState[t] = "running"
  /\ nextTask <= MaxTasks
  /\ DoEnqueue(nextTask, "task")
  /\ UNCHANGED appVars
  /\ UNCHANGED <<requested, concurrency, onError, nextWaiter, observed, consoleErrors, lastFinally>>

\* the task's promise is fulfilled
Fulfil(t) ==
  /\ taskState[t] = "running"
  /\ taskState' = [taskState EXCEPT ![t] = "fulfilled"]
  /\ UNCHANGED appVars
  /\ UNCHANGED <<requested, concurrency, onError, queue, activeCount, idleResolvers, nextTask,
                 nextWaiter, enqueueOrder, startOrder, enqueuedBy, observed,
                 consoleErrors, resolvedLog, lastFinally>>

\* the task throws or its promise is rejected
Reject(t) ==
  /\ taskState[t] = "running"
  /\ taskState' = [taskState EXCEPT ![t] = "rejected"]
  /\ UNCHANGED appVars
  /\ UNCHANGED <<requested, concurrency, onError, queue, activeCount, idleResolvers, nextTask,
                 nextWaiter, enqueueOrder, startOrder, enqueuedBy, observed,
                 consoleErrors, resolvedLog, lastFinally>>

\* the catch callback: the observer is called, or console.error
Catch(t) ==
  /\ taskState[t] = "rejected"
  /\ IF onError
     THEN /\ observed' = observed \cup {t}
          /\ consoleErrors' = consoleErrors
     ELSE /\ consoleErrors' = consoleErrors \cup {t}
          /\ observed' = observed
  /\ taskState' = [taskState EXCEPT ![t] = "caught"]
  /\ UNCHANGED appVars
  /\ UNCHANGED <<requested, concurrency, onError, queue, activeCount, idleResolvers, nextTask,
                 nextWaiter, enqueueOrder, startOrder, enqueuedBy, resolvedLog,
                 lastFinally>>

\* the catch callback when the observer itself enqueues a task
CatchEnqueue(t) ==
  /\ taskState[t] = "rejected"
  /\ onError
  /\ nextTask <= MaxTasks
  /\ observed' = observed \cup {t}
  /\ ApplyPool(EnqueueOn([Pool EXCEPT !.taskState[t] = "caught"], nextTask))
  /\ nextTask' = nextTask + 1
  /\ enqueueOrder' = Append(enqueueOrder, nextTask)
  /\ enqueuedBy' = [enqueuedBy EXCEPT ![nextTask] = "observer"]
  /\ UNCHANGED appVars
  /\ UNCHANGED <<requested, concurrency, onError, nextWaiter, consoleErrors, lastFinally>>

\* the finally callback: activeCount -= 1, then runNext
Finally(t) ==
  /\ taskState[t] \in {"fulfilled", "caught"}
  /\ LET failed == taskState[t] = "caught"
         p == RunNext([Pool EXCEPT !.activeCount = AfterSettle(@, failed),
                                   !.taskState[t] = "done"])
     IN /\ ApplyPool(p)
        /\ lastFinally' = [task |-> t, failed |-> failed, before |-> activeCount,
                           queuedBefore |-> Len(queue), started |-> p.started,
                           after |-> p.activeCount,
                           others |-> \A u \in TaskIds \ {t} :
                                        \/ p.taskState[u] = taskState[u]
                                        \/ /\ taskState[u] = "queued"
                                           /\ p.taskState[u] = "started"]
  /\ UNCHANGED appVars
  /\ UNCHANGED <<requested, concurrency, onError, nextTask, nextWaiter, enqueueOrder,
                 enqueuedBy, observed, consoleErrors>>

\* onIdle(): resolved at once when idle, else the resolver is kept
OnIdleResult(w) ==
  IF IdleCond(queue, activeCount)
  THEN [idleResolvers |-> idleResolvers,
        resolved |-> {Snapshot(w, queue, activeCount, taskState, FALSE)}]
  ELSE [idleResolvers |-> Append(idleResolvers, w), resolved |-> {}]

OnIdle ==
  /\ nextWaiter <= MaxWaiters
  /\ LET r == OnIdleResult(nextWaiter)
     IN /\ idleResolvers' = r.idleResolvers
        /\ resolvedLog' = resolvedLog \cup r.resolved
  /\ nextWaiter' = nextWaiter + 1
  /\ UNCHANGED appVars
  /\ UNCHANGED <<requested, concurrency, onError, queue, activeCount, taskState, nextTask,
                 enqueueOrder, startOrder, enqueuedBy, observed, consoleErrors,
                 lastFinally>>

\* the application's state while only the pool is exercised
AppIdle ==
  /\ variant = "main"
  /\ pollPc = "off"
  /\ cycle = 0
  /\ inFlightPhotoUids = {}
  /\ taskUid = [t \in TaskIds |-> ""]
  /\ taskCycle = [t \in TaskIds |-> 0]
  /\ taskFile = [t \in TaskIds |-> <<>>]
  /\ taskPc = [t \in TaskIds |-> "none"]
  /\ labelsLeft = [t \in TaskIds |-> 0]
  /\ labelCount = [t \in TaskIds |-> 0]
  /\ opLog = [t \in TaskIds |-> <<>>]
  /\ remoteMarker = {}
  /\ faults = 0
  /\ clock = 0 /\ startedAt = 0 /\ elapsedMs = 0 /\ waitMs = 0
  /\ queryFailed = {}
  /\ text = <<>> /\ fn = "none" /\ out = <<>>
  /\ lookup = LookupOff /\ stable = StableOff /\ watcher = WatcherOff

Init ==
  /\ PoolInit
  /\ onError \in BOOLEAN
  /\ AppIdle

Next ==
  \/ Enqueue
  \/ OnIdle
  \/ \E t \in TaskIds : Invoke(t)
  \/ \E t \in TaskIds : TaskEnqueue(t)
  \/ \E t \in TaskIds : Fulfil(t)
  \/ \E t \in TaskIds : Reject(t)
  \/ \E t \in TaskIds : Catch(t)
  \/ \E t \in TaskIds : CatchEnqueue(t)
  \/ \E t \in TaskIds : Finally(t)

Spec == Init /\ [][Next]_vars

\* the reactions of a promise chain run once the promise before them has
\* settled, and every task that was called settles
Reaction(t) ==
  \/ Invoke(t)
  \/ Fulfil(t) \/ Reject(t)
  \/ Catch(t) \/ CatchEnqueue(t)
  \/ Finally(t)

FairSpec == Spec /\ WF_vars(\E t \in TaskIds : Reaction(t))

\* ------------------------------------------------- PhotoPrismClient (polling)
UIDs == {"u1", "u2"}
\* the UID field of a response item: absent or blank, or a uid
RawUids == {""} \cup UIDs
\* file names as their dot-separated segments; <<>> is an absent name
FileNames == {<<"a", "png">>, <<"b", "txt">>}
RawFileNames == {<<>>} \cup FileNames
Items == [UID : RawUids, FileName : RawFileNames]
ItemSeqs == UNION {[1..n -> Items] : n \in 0..MaxItems}

\* String.prototype.toLowerCase on the extensions in use
ToLowerCase(x) ==
  CASE x = "PNG" -> "png" [] x = "JPG" -> "jpg" [] x = "JPEG" -> "jpeg"
    [] x = "WEBP" -> "webp" [] x = "TXT" -> "txt" [] OTHER -> x

\* WATCHED_IMAGE_FILE_RE.test(filePath): /\.(png|webp|jpg|jpeg)$/i
WatchedImageFileBug(f) == Len(f) >= 2
WatchedImageFile(f) ==
  /\ Len(f) >= 2
  /\ ToLowerCase(f[Len(f)]) \in {"png", "webp", "jpg", "jpeg"}

\* resolveLocation: the file name of an item, <<>> when it has none
ResolveLocation(item) == item.FileName

\* clean(value): the trimmed value, "" for null, on the values in use
Clean(value) ==
  CASE value = " " -> "" [] value = " u1" -> "u1" [] OTHER -> value

\* the first loop of listCaptionlessPhotos: one entry per new non-blank uid,
\* uids without a location are set aside
RECURSIVE ListScan(_, _, _, _)
ListScan(items, seen, result, unresolved) ==
  IF items = <<>> THEN [result |-> result, unresolvedUids |-> unresolved]
  ELSE LET item == Head(items)
           uid == Clean(item.UID)
       IN IF uid = "" \/ uid \in seen
          THEN ListScan(Tail(items), seen, result, unresolved)
          ELSE IF ResolveLocation(item) = <<>>
               THEN ListScan(Tail(items), seen \cup {uid}, result,
                             Append(unresolved, uid))
               ELSE ListScan(Tail(items), seen \cup {uid},
                             Append(result, [uid |-> uid,
                                             filename |-> ResolveLocation(item)]),
                             unresolved)

\* the second loop: the set-aside uids whose location a second read found
ListResolvedBug(unresolved, fetched) ==
  [i \in 1..Len(unresolved) |->
     [uid |-> unresolved[i], filename |-> fetched[unresolved[i]]]]
RECURSIVE ListResolved(_, _)
ListResolved(unresolved, fetched) ==
  IF unresolved = <<>> THEN <<>>
  ELSE LET uid == Head(unresolved)
           rest == ListResolved(Tail(unresolved), fetched)
       IN IF fetched[uid] = <<>> THEN rest
          ELSE <<[uid |-> uid, filename |-> fetched[uid]]>> \o rest

\* listCaptionlessPhotos: [] when the query fails
ListCaptionlessPhotosBug(ok, items, fetched) ==
  LET s == ListScan(items, {}, <<>>, <<>>)
  IN s.result \o ListResolved(s.unresolvedUids, fetched)
ListCaptionlessPhotos(ok, items, fetched) ==
  IF ~ok THEN <<>>
  ELSE LET s == ListScan(items, {}, <<>>, <<>>)
       IN s.result \o ListResolved(s.unresolvedUids, fetched)

\* a remote call succeeds, or fails while the failure budget lasts
Outcomes == {TRUE} \cup (IF faults < MaxFaults THEN {FALSE} ELSE {})

Count(ok) == faults' = IF ok THEN faults ELSE faults + 1

\* the answers of the remote index to one caption-empty query and to the
\* location reads that follow it: the listed items and, for each uid, the
\* file name a location read yields
Answers == [items : ItemSeqs, fetched : [UIDs -> {<<>>, <<"a", "PNG">>}]]

\* the lists listCaptionlessPhotos can return for a query that succeeds or fails
PossibleLists(ok) ==
  {ListCaptionlessPhotos(ok, a.items, a.fetched) : a \in Answers}

\* ------------------------------------------------------ PngTaggerApp (polling)
\* this.inFlightPhotoUids.has(photo.uid)
InFlightHasBug(inFlight, uid) == FALSE
InFlightHas(inFlight, uid) == uid \in inFlight

\* the for loop of runPollCycle over the listed photos
RECURSIVE CycleLoop(_, _)
CycleLoop(photos, s) ==
  IF photos = <<>> THEN s
  ELSE LET photo == Head(photos)
           t == s.nextTask
       IN IF InFlightHas(s.inFlight, photo.uid)
          THEN CycleLoop(Tail(photos), [s EXCEPT !.skipped = @ + 1,
                                                 !.alreadyInFlight = @ + 1])
          ELSE IF ~WatchedImageFile(photo.filename)
          THEN CycleLoop(Tail(photos), [s EXCEPT !.skipped = @ + 1])
          ELSE IF t > MaxPollTasks
          THEN [s EXCEPT !.overflow = TRUE]
          ELSE CycleLoop(Tail(photos),
                 [s EXCEPT !.inFlight = @ \cup {photo.uid},
                           !.queued = @ + 1,
                           !.pool = EnqueueOn(@, t),
                           !.nextTask = t + 1,
                           !.enqueueOrder = Append(@, t),
                           !.taskUid[t] = photo.uid,
                           !.taskCycle[t] = cycle,
                           !.taskFile[t] = photo.filename,
                           !.taskPc[t] = "hasLabel"])

CycleStart ==
  [inFlight |-> inFlightPhotoUids, queued |-> 0, skipped |-> 0, pool |-> Pool,
   nextTask |-> nextTask, enqueueOrder |-> enqueueOrder, taskUid |-> taskUid,
   taskCycle |-> taskCycle, taskFile |-> taskFile,
   taskPc |-> taskPc, overflow |-> FALSE,
   alreadyInFlight |-> 0]  \* history: the photos skipped as already in flight

\* the whole concurrency values 1 and 2, in halves
WholeConcurrency == {2, 4}

\* new PngTaggerApp(): the pool with the logging observer, nothing in flight
PollInit ==
  /\ PoolInit
  /\ requested \in WholeConcurrency
  /\ onError = TRUE
  /\ variant \in {"main", "part_005"}
  /\ pollPc = "start"
  /\ cycle = 0
  /\ inFlightPhotoUids = {}
  /\ taskUid = [t \in TaskIds |-> ""]
  /\ taskCycle = [t \in TaskIds |-> 0]
  /\ taskFile = [t \in TaskIds |-> <<>>]
  /\ taskPc = [t \in TaskIds |-> "none"]
  /\ labelsLeft = [t \in TaskIds |-> 0]
  /\ labelCount = [t \in TaskIds |-> 0]
  /\ opLog = [t \in TaskIds |-> <<>>]
  /\ remoteMarker \in {{}, {"u1"}}
  /\ faults = 0
  /\ clock = 0 /\ startedAt = 0 /\ elapsedMs = 0 /\ waitMs = 0
  /\ queryFailed = {}
  /\ text = <<>> /\ fn = "none" /\ out = <<>>
  /\ lookup = LookupOff /\ stable = StableOff /\ watcher = WatcherOff

poolHistory == <<nextWaiter, enqueuedBy, observed, consoleErrors, lastFinally>>
taskVars == <<taskUid, taskCycle, taskFile, taskPc, labelsLeft, labelCount, opLog>>

\* Math.max(0, appEnv.pollIntervalMs - elapsedMs)
WaitMsBug(interval, elapsed) == interval - elapsed
WaitMs(interval, elapsed) == Max(0, interval - elapsed)

\* sleep(ms): the timer fires ms after it was set (at once for a negative
\* ms), or later by the time the event loop is busy
SleepTime(ms, late) == Max(0, ms) + late

\* startPolling: top of the loop, startedAt = Date.now(), and runPollCycle
\* issues the caption-empty query
StartCycle ==
  /\ pollPc = "start"
  /\ cycle < MaxCycles
  /\ pollPc' = "listing"
  /\ cycle' = cycle + 1
  /\ clock' = 0
  /\ startedAt' = clock'
  /\ elapsedMs' = 0
  /\ waitMs' = 0
  /\ UNCHANGED <<poolVars, variant, inFlightPhotoUids, taskVars, remoteMarker,
                 faults, queryFailed, textVars>>

\* the query's answer arrives: listCaptionlessPhotos returns and runPollCycle
\* runs its loop to the end
RunPollCycle ==
  /\ pollPc = "listing"
  /\ \E ok \in Outcomes :
       /\ Count(ok)
       /\ queryFailed' = IF ok THEN queryFailed ELSE queryFailed \cup {cycle}
       /\ \E captionlessPhotos \in PossibleLists(ok) :
            LET r == CycleLoop(captionlessPhotos, CycleStart)
            IN /\ ~r.overflow
               /\ ApplyPool(r.pool)
               /\ inFlightPhotoUids' = r.inFlight
               /\ nextTask' = r.nextTask
               /\ enqueueOrder' = r.enqueueOrder
               /\ taskUid' = r.taskUid
               /\ taskCycle' = r.taskCycle
               /\ taskFile' = r.taskFile
               /\ taskPc' = r.taskPc
  /\ pollPc' = "enqueued"
  /\ UNCHANGED <<requested, concurrency, onError, poolHistory, variant, paceVars, textVars, cycle,
                 labelsLeft, labelCount, opLog, remoteMarker>>

\* await this.workerPool.onIdle()
AwaitIdle ==
  /\ pollPc = "enqueued"
  /\ LET r == OnIdleResult(PollerWaiter)
     IN /\ idleResolvers' = r.idleResolvers
        /\ resolvedLog' = resolvedLog \cup r.resolved
  /\ pollPc' = "awaitIdle"
  /\ UNCHANGED <<requested, concurrency, onError, queue, activeCount, taskState, nextTask,
                 enqueueOrder, startOrder, poolHistory, variant, paceVars, textVars, queryFailed, cycle,
                 inFlightPhotoUids, taskVars, remoteMarker, faults>>

\* the idle promise is resolved: elapsedMs = Date.now() - startedAt, the loop
\* computes its wait and sleeps
IdleResumed ==
  /\ pollPc = "awaitIdle"
  /\ PollerWaiter \notin Range(idleResolvers)
  /\ \E d \in 0..MaxElapsed : clock' = clock + d
  /\ elapsedMs' = clock' - startedAt
  /\ waitMs' = WaitMs(pollIntervalMs, elapsedMs')
  /\ pollPc' = "sleep"
  /\ UNCHANGED <<poolVars, variant, cycle, inFlightPhotoUids, taskVars,
                 remoteMarker, faults, startedAt, queryFailed, textVars>>

\* the sleep ends
SleepDone ==
  /\ pollPc = "sleep"
  /\ \E late \in 0..MaxLate : clock' = clock + SleepTime(waitMs, late)
  /\ pollPc' = "start"
  /\ UNCHANGED <<poolVars, variant, cycle, inFlightPhotoUids, taskVars,
                 remoteMarker, faults, startedAt, elapsedMs, waitMs, queryFailed, textVars>>

\* --------------------------------------- PngTaggerApp.processResolvedPhoto
\* PhotoPrismClient.hasLabel: false when the read fails
HasLabelBug(ok, carries) == ~ok \/ carries
HasLabel(ok, carries) == ok /\ carries

\* what the log keeps of a marker read
ReadEntry(ok, carries) ==
  IF ~ok THEN "hasLabel:error"
  ELSE IF carries THEN "hasLabel:true" ELSE "hasLabel:false"

\* if (alreadyImported) return;
AfterMarkerCheckBug(alreadyImported) == "resolve"
AfterMarkerCheck(alreadyImported) ==
  IF alreadyImported THEN "end" ELSE "resolve"

\* what follows a successful file resolution: main.ts writes the marker at
\* once (line 78), part_005 goes on to the stability wait
AfterResolve(v) == IF v = "main" THEN "markerEarly" ELSE "waitStable"

\* what follows the last derived label: part_005 writes the marker (line
\* 216), main.ts is finished
AfterLabels(v) == IF v = "part_005" THEN "markerLate" ELSE "end"

\* if (!prompt) return;  and  if (!labels.length) return;
AfterExtract(n) == IF n <= 0 THEN "end" ELSE "labels"

Running(t, pc) == taskState[t] = "running" /\ taskPc[t] = pc

Step(t, pc, entry) ==
  /\ taskPc' = [taskPc EXCEPT ![t] = pc]
  /\ opLog' = [opLog EXCEPT ![t] = Append(@, entry)]

\* the answer of hasLabel(uid, markerLabel) arrives
ReadMarker(t) ==
  /\ Running(t, "hasLabel")
  /\ \E ok \in Outcomes :
       LET carries == taskUid[t] \in remoteMarker
       IN /\ Step(t, AfterMarkerCheck(HasLabel(ok, carries)), ReadEntry(ok, carries))
          /\ Count(ok)
  /\ UNCHANGED <<poolVars, variant, paceVars, textVars, queryFailed, pollPc, cycle, inFlightPhotoUids, taskUid,
                 taskCycle, taskFile, labelsLeft, labelCount, remoteMarker>>

\* resolveExistingPhotoPath finds the file or not
ResolvePath(t) ==
  /\ Running(t, "resolve")
  /\ \E found \in BOOLEAN :
       Step(t, IF found THEN AfterResolve(variant) ELSE "end",
            IF found THEN "resolve" ELSE "resolve:none")
  /\ UNCHANGED <<poolVars, variant, paceVars, textVars, queryFailed, pollPc, cycle, inFlightPhotoUids, taskUid,
                 taskCycle, taskFile, labelsLeft, labelCount, remoteMarker, faults>>

\* addLabel(uid, markerLabel, 10): a failed write is logged and swallowed
AddMarker(t, pc, next) ==
  /\ Running(t, pc)
  /\ \E ok \in Outcomes :
       /\ Step(t, next, IF ok THEN "addMarker" ELSE "addMarker:error")
       /\ remoteMarker' = IF ok THEN remoteMarker \cup {taskUid[t]} ELSE remoteMarker
       /\ Count(ok)
  /\ UNCHANGED <<poolVars, variant, paceVars, textVars, queryFailed, pollPc, cycle, inFlightPhotoUids, taskUid,
                 taskCycle, taskFile, labelsLeft, labelCount>>

\* main.ts line 78
AddMarkerEarly(t) == AddMarker(t, "markerEarly", "waitStable")

\* part_005 line 216
AddMarkerLate(t) == AddMarker(t, "markerLate", "end")

\* waitForStable(resolvedFilePath) returns
WaitStable(t) ==
  /\ Running(t, "waitStable")
  /\ Step(t, "extract", "waitForStable")
  /\ UNCHANGED <<poolVars, variant, paceVars, textVars, queryFailed, pollPc, cycle, inFlightPhotoUids, taskUid,
                 taskCycle, taskFile, labelsLeft, labelCount, remoteMarker, faults>>

\* extractPrompt returns: no prompt (n = -1), or a prompt with n labels
ExtractPrompt(t) ==
  /\ Running(t, "extract")
  /\ \E n \in -1..MaxLabels :
       /\ Step(t, AfterExtract(n),
               IF n = -1 THEN "extract:none"
               ELSE IF n = 0 THEN "extract:nolabels" ELSE "extract")
       /\ labelsLeft' = [labelsLeft EXCEPT ![t] = IF n > 0 THEN n ELSE 0]
       /\ labelCount' = [labelCount EXCEPT ![t] = IF n > 0 THEN n ELSE 0]
  /\ UNCHANGED <<poolVars, variant, paceVars, textVars, queryFailed, pollPc, cycle, inFlightPhotoUids, taskUid,
                 taskCycle, taskFile, remoteMarker, faults>>

\* the for loop over the labels after one addLabel(uid, label) has returned:
\* addLabel logs a failed write and returns, so the loop goes on either way
AfterAddLabelBug(ok, left, v) ==
  IF ~ok THEN "end" ELSE IF left = 1 THEN AfterLabels(v) ELSE "labels"
AfterAddLabel(ok, left, v) == IF left = 1 THEN AfterLabels(v) ELSE "labels"

\* addLabel(uid, label) for the next derived label: a failed write is logged
\* and swallowed
AddLabel(t) ==
  /\ Running(t, "labels")
  /\ labelsLeft[t] > 0
  /\ \E ok \in Outcomes :
       /\ Step(t, AfterAddLabel(ok, labelsLeft[t], variant),
               IF ok THEN "addLabel" ELSE "addLabel:error")
       /\ Count(ok)
  /\ labelsLeft' = [labelsLeft EXCEPT ![t] = @ - 1]
  /\ UNCHANGED <<poolVars, variant, paceVars, textVars, queryFailed, pollPc, cycle,
                 inFlightPhotoUids, taskUid, taskCycle, taskFile, labelCount, remoteMarker>>

\* the closure's finally block: this.inFlightPhotoUids.delete(photo.uid), run
\* whether processResolvedPhoto returned or threw
InFlightAfterBug(inFlight, uid, threw) == IF threw THEN inFlight ELSE inFlight \ {uid}
InFlightAfter(inFlight, uid, threw) == inFlight \ {uid}

\* the steps of processResolvedPhoto that work on the local file: resolving
\* the path, the stability wait, the extraction and parsing of the prompt
ThrowPoints == {"resolve", "waitStable", "extract"}

\* processResolvedPhoto returns: the closure's finally block, then its promise
\* is fulfilled
EndTask(t) ==
  /\ Running(t, "end")
  /\ inFlightPhotoUids' = InFlightAfter(inFlightPhotoUids, taskUid[t], FALSE)
  /\ taskPc' = [taskPc EXCEPT ![t] = "ended"]
  /\ taskState' = [taskState EXCEPT ![t] = "fulfilled"]
  /\ UNCHANGED <<requested, concurrency, onError, queue, activeCount, idleResolvers, nextTask,
                 enqueueOrder, startOrder, resolvedLog, poolHistory, variant, paceVars, textVars, queryFailed,
                 pollPc, cycle, taskUid, taskCycle, taskFile, labelsLeft, labelCount, opLog, remoteMarker,
                 faults>>

\* an exception escapes processResolvedPhoto: the closure's finally block
\* runs, then its promise is rejected
TaskThrows(t) ==
  /\ taskState[t] = "running"
  /\ taskPc[t] \in ThrowPoints
  /\ FALSE \in Outcomes
  /\ Count(FALSE)
  /\ inFlightPhotoUids' = InFlightAfter(inFlightPhotoUids, taskUid[t], TRUE)
  /\ taskPc' = [taskPc EXCEPT ![t] = "ended"]
  /\ opLog' = [opLog EXCEPT ![t] = Append(@, "throw")]
  /\ taskState' = [taskState EXCEPT ![t] = "rejected"]
  /\ UNCHANGED <<requested, concurrency, onError, queue, activeCount, idleResolvers, nextTask,
                 enqueueOrder, startOrder, resolvedLog, poolHistory, variant, paceVars, textVars, queryFailed,
                 pollPc, cycle, taskUid, taskCycle, taskFile, labelsLeft, labelCount, remoteMarker>>

PollNext ==
  \/ StartCycle
  \/ RunPollCycle
  \/ AwaitIdle
  \/ IdleResumed
  \/ SleepDone
  \/ \E t \in TaskIds : Invoke(t)
  \/ \E t \in TaskIds : ReadMarker(t)
  \/ \E t \in TaskIds : ResolvePath(t)
  \/ \E t \in TaskIds : AddMarkerEarly(t)
  \/ \E t \in TaskIds : WaitStable(t)
  \/ \E t \in TaskIds : ExtractPrompt(t)
  \/ \E t \in TaskIds : AddLabel(t)
  \/ \E t \in TaskIds : AddMarkerLate(t)
  \/ \E t \in TaskIds : EndTask(t)
  \/ \E t \in TaskIds : TaskThrows(t)
  \/ \E t \in TaskIds : Catch(t)
  \/ \E t \in TaskIds : Finally(t)

PollSpec == PollInit /\ [][PollNext]_vars

\* ----------------------------------------------------------- text functions
\* A string is the sequence of its characters.
Strings(alphabet, n) == UNION {[1..k -> alphabet] : k \in 0..n}

\* [0-9.]
WeightChars == {"0", "1", "2", "3", "4", "5", "6", "7", "8", "9", "."}

\* \s
WhiteSpace == {" ", "\t", "\n", "\r"}

\* [0-9.]+ from position i, greedy: the position after the run
WeightRunEnd(s, i) ==
  CHOOSE j \in i..(Len(s) + 1) :
    /\ \A x \in i..(j - 1) : s[x] \in WeightChars
    /\ j = Len(s) + 1 \/ s[j] \notin WeightChars

\* /\(([^()]+?):[0-9.]+\)/ at position i: the lengths the group can have
ParenWeightGroups(s, i) ==
  {k \in 1..Len(s) :
     /\ s[i] = "("
     /\ i + k + 2 <= Len(s)
     /\ \A x \in (i + 1)..(i + k) : s[x] \notin {"(", ")"}
     /\ s[i + k + 1] = ":"
     /\ s[i + k + 2] \in WeightChars
     /\ LET e == WeightRunEnd(s, i + k + 2)
        IN e <= Len(s) /\ s[e] = ")"}

SetMin(S) == CHOOSE x \in S : \A y \in S : x <= y
SetMax(S) == CHOOSE x \in S : \A y \in S : x >= y

\* text.replace(/\(([^()]+?):[0-9.]+\)/g, "($1)") from position i on: the
\* leftmost match is replaced and the search goes on after it; the group is
\* lazy, so the shortest one is taken
RECURSIVE ReplaceParenWeights(_, _)
ReplaceParenWeights(s, i) ==
  LET starts == {a \in i..Len(s) : ParenWeightGroups(s, a) # {}}
  IN IF starts = {} THEN SubSeq(s, i, Len(s))
     ELSE LET a == SetMin(starts)
              k == SetMin(ParenWeightGroups(s, a))
              e == WeightRunEnd(s, a + k + 2)
          IN SubSeq(s, i, a - 1) \o <<"(">> \o SubSeq(s, a + 1, a + k) \o <<")">> \o
             ReplaceParenWeights(s, e + 1)

\* /(\S+):[0-9.]+/ at position i: the lengths the group can have
BareWeightGroups(s, i) ==
  {k \in 1..Len(s) :
     /\ i + k + 1 <= Len(s)
     /\ s[i + k] = ":"
     /\ s[i + k + 1] \in WeightChars
     /\ \A x \in i..(i + k - 1) : s[x] \notin WhiteSpace}

\* result.replace(/(\S+):[0-9.]+/g, "$1") from position i on: the leftmost
\* match is replaced and the search goes on after it; the group is greedy,
\* so the longest one is taken
RECURSIVE ReplaceBareWeights(_, _)
ReplaceBareWeights(s, i) ==
  LET starts == {a \in i..Len(s) : BareWeightGroups(s, a) # {}}
  IN IF starts = {} THEN SubSeq(s, i, Len(s))
     ELSE LET a == SetMin(starts)
              k == SetMax(BareWeightGroups(s, a))
              e == WeightRunEnd(s, a + k + 1)
          IN SubSeq(s, i, a - 1) \o SubSeq(s, a, a + k - 1) \o
             ReplaceBareWeights(s, e)

removeWeights(s) == ReplaceBareWeights(ReplaceParenWeights(s, 1), 1)

\* ------------------------------------------------------------ promptLabels
UpperCase == <<"A", "B", "C", "D", "E", "F", "G", "H", "I", "J", "K", "L", "M",
               "N", "O", "P", "Q", "R", "S", "T", "U", "V", "W", "X", "Y", "Z">>
LowerCase == <<"a", "b", "c", "d", "e", "f", "g", "h", "i", "j", "k", "l", "m",
               "n", "o", "p", "q", "r", "s", "t", "u", "v", "w", "x", "y", "z">>

LowerChar(c) ==
  IF \E i \in 1..26 : UpperCase[i] = c
  THEN LowerCase[CHOOSE i \in 1..26 : UpperCase[i] = c]
  ELSE c

\* String.prototype.toLowerCase
Lower(s) == [i \in 1..Len(s) |-> LowerChar(s[i])]

\* String.prototype.trim
Trim(s) ==
  LET inside == {i \in 1..Len(s) : s[i] \notin WhiteSpace}
  IN IF inside = {} THEN <<>> ELSE SubSeq(s, SetMin(inside), SetMax(inside))

\* String.prototype.split with a separator of one character
RECURSIVE SplitOn(_, _)
SplitOn(s, sep) ==
  LET at == {i \in 1..Len(s) : s[i] = sep}
  IN IF at = {} THEN <<s>>
     ELSE LET i == SetMin(at)
          IN <<SubSeq(s, 1, i - 1)>> \o SplitOn(SubSeq(s, i + 1, Len(s)), sep)

\* s.replace(/[...]/g, ""): the characters of a class removed
RECURSIVE Without(_, _)
Without(s, class) ==
  IF s = <<>> THEN <<>>
  ELSE IF Head(s) \in class THEN Without(Tail(s), class)
  ELSE <<Head(s)>> \o Without(Tail(s), class)

\* s.replace(/\s+/g, " ")
RECURSIVE CollapseSpaces(_)
CollapseSpaces(s) ==
  IF s = <<>> THEN <<>>
  ELSE IF Head(s) \in WhiteSpace
  THEN IF Len(s) > 1 /\ s[2] \in WhiteSpace
       THEN CollapseSpaces(Tail(s))
       ELSE <<" ">> \o CollapseSpaces(Tail(s))
  ELSE <<Head(s)>> \o CollapseSpaces(Tail(s))

\* \d
DigitChars == {"0", "1", "2", "3", "4", "5", "6", "7", "8", "9"}

\* \d+ from position i, greedy: the position after the run
DigitRunEnd(s, i) ==
  CHOOSE j \in i..(Len(s) + 1) :
    /\ \A x \in i..(j - 1) : s[x] \in DigitChars
    /\ j = Len(s) + 1 \/ s[j] \notin DigitChars

\* s.replace(/:\d+(\.\d+)?/g, "") from position i on
RECURSIVE RemoveColonNumbers(_, _)
RemoveColonNumbers(s, i) ==
  IF i > Len(s) THEN <<>>
  ELSE IF s[i] = ":" /\ i + 1 <= Len(s) /\ s[i + 1] \in DigitChars
  THEN LET e == DigitRunEnd(s, i + 1)
           f == IF e + 1 <= Len(s) /\ s[e] = "." /\ s[e + 1] \in DigitChars
                THEN DigitRunEnd(s, e + 1) ELSE e
       IN RemoveColonNumbers(s, f)
  ELSE <<s[i]>> \o RemoveColonNumbers(s, i + 1)

\* the characters . does not match
LineTerminators == {"\n", "\r"}

\* /\(.*?:.*?\)/ at position i: the position of the closing parenthesis, 0
\* when there is no match
ParenColonEnd(s, i) ==
  LET colons == {p \in (i + 1)..Len(s) : s[p] = ":"}
      p == SetMin(colons)
      closes == {q \in (p + 1)..Len(s) : s[q] = ")"}
      q == SetMin(closes)
  IN IF s[i] # "(" \/ colons = {} THEN 0
     ELSE IF closes = {} THEN 0
     ELSE IF \E x \in (i + 1)..(q - 1) : s[x] \in LineTerminators THEN 0
     ELSE q

\* s.replace(/\(.*?:.*?\)/g, "") from position i on
RECURSIVE RemoveParenColon(_, _)
RemoveParenColon(s, i) ==
  IF i > Len(s) THEN <<>>
  ELSE LET q == ParenColonEnd(s, i)
       IN IF q = 0 THEN <<s[i]>> \o RemoveParenColon(s, i + 1)
          ELSE RemoveParenColon(s, q + 1)

\* [()[\]{}]
BracketsBug == {"[", "]", "{", "}"}
Brackets == {"(", ")", "[", "]", "{", "}"}

cleanToken(token) ==
  Trim(Lower(CollapseSpaces(Without(
    RemoveParenColon(Without(RemoveColonNumbers(Trim(token), 1), {"."}), 1),
    Brackets))))

\* array.flatMap((label) => label.split("|"))
RECURSIVE FlatSplit(_, _)
FlatSplit(list, sep) ==
  IF list = <<>> THEN <<>>
  ELSE SplitOn(Head(list), sep) \o FlatSplit(Tail(list), sep)

\* array.filter(Boolean)
NonEmpty(list) == SelectSeq(list, LAMBDA x : x # <<>>)

\* array.map(cleanToken)
MapCleanToken(list) == [i \in 1..Len(list) |-> cleanToken(list[i])]

parsePositivePromptLabels(positivePrompt) ==
  NonEmpty(FlatSplit(MapCleanToken(SplitOn(positivePrompt, ",")), "|"))

\* ------------------------------------------- NextcloudSystemTagger.promptToTags
\* the default stopwords of the constructor
stopwords ==
  {<<"a">>, <<"a", "n">>, <<"t", "h", "e">>, <<"o", "f">>, <<"a", "n", "d">>,
   <<"w", "i", "t", "h">>, <<"i", "n">>, <<"o", "n">>, <<"t", "o">>, <<"i", "s">>}

\* opts?.tagLimit ?? 10
tagLimit == 10

\* Array.from(new Set(raw)): the first occurrence of every element, in order
RECURSIVE Distinct(_, _)
Distinct(list, seen) ==
  IF list = <<>> THEN <<>>
  ELSE IF Head(list) \in seen THEN Distinct(Tail(list), seen)
  ELSE <<Head(list)>> \o Distinct(Tail(list), seen \cup {Head(list)})

\* the filter of promptToTags
KeepTag(tag) == Len(tag) >= 2 /\ tag \notin stopwords

promptToTags(prompt) ==
  LET parts == SplitOn(prompt, ",")
      raw == SelectSeq(
               NonEmpty([i \in 1..Len(parts) |->
                           CollapseSpaces(Lower(Trim(parts[i])))]),
               KeepTag)
      tags == Distinct(raw, {})
  IN SubSeq(tags, 1, IF Len(tags) < tagLimit THEN Len(tags) ELSE tagLimit)

\* ------------------------------------------- PngInfo.parseA1111ParametersBlock
\* a class of characters matched greedily from position i: the position
\* after the run
RunEnd(s, i, class) ==
  IF i > Len(s) THEN i
  ELSE CHOOSE j \in i..(Len(s) + 1) :
         /\ \A x \in i..(j - 1) : s[x] \in class
         /\ j = Len(s) + 1 \/ s[j] \notin class

\* .* or .+ from position i, greedy: the position of the next line
\* terminator, or the one after the end
LineEnd(s, i) ==
  CHOOSE j \in i..(Len(s) + 1) :
    /\ \A x \in i..(j - 1) : s[x] \notin LineTerminators
    /\ j = Len(s) + 1 \/ s[j] \in LineTerminators

\* a literal matched at position i under the flag i; lit is in lower case
MatchesAt(s, i, lit) ==
  /\ i + Len(lit) - 1 <= Len(s)
  /\ Lower(SubSeq(s, i, i + Len(lit) - 1)) = lit

NegativePrompt ==
  <<"n", "e", "g", "a", "t", "i", "v", "e", " ", "p", "r", "o", "m", "p", "t", ":">>

\* /[\r\n]+Negative prompt:\s*/i at position i: the position after the
\* match, 0 when there is none
NegativeMarkerEnd(s, i) ==
  IF s[i] \notin LineTerminators THEN 0
  ELSE LET r == RunEnd(s, i, LineTerminators)
       IN IF MatchesAt(s, r, NegativePrompt)
          THEN RunEnd(s, r + Len(NegativePrompt), WhiteSpace)
          ELSE 0

\* raw.split(/[\r\n]+Negative prompt:\s*/i)
RECURSIVE SplitNegativePrompt(_)
SplitNegativePrompt(s) ==
  LET starts == {i \in 1..Len(s) : NegativeMarkerEnd(s, i) # 0}
  IN IF starts = {} THEN <<s>>
     ELSE LET a == SetMin(starts)
          IN <<SubSeq(s, 1, a - 1)>> \o
             SplitNegativePrompt(SubSeq(s, NegativeMarkerEnd(s, a), Len(s)))

\* negAndTail.match(/([\s\S]*?)(?:[\r\n]+(.+)|$)/): the first group is the
\* shortest text followed by line terminators and one more character, or
\* else the whole text; the second group is the line after the terminators
NegativeAndTail(s) ==
  LET breaks == {k \in 0..(Len(s) - 1) :
                   /\ s[k + 1] \in LineTerminators
                   /\ RunEnd(s, k + 1, LineTerminators) <= Len(s)}
  IN IF breaks = {} THEN [negative |-> s, tail |-> <<>>]
     ELSE LET k == SetMin(breaks)
              r == RunEnd(s, k + 1, LineTerminators)
          IN [negative |-> SubSeq(s, 1, k),
              tail |-> SubSeq(s, r, LineEnd(s, r) - 1)]

\* raw.split(/\r?\n/).slice(-1)[0]
LastLine(s) ==
  LET feeds == {i \in 1..Len(s) : s[i] = "\n"}
  IN IF feeds = {} THEN s ELSE SubSeq(s, SetMax(feeds) + 1, Len(s))

\* s.split(/\s*,\s*/) and s.split(/\s*:\s*/): the separator with the white
\* space around it
RECURSIVE SplitAround(_, _)
SplitAround(s, sep) ==
  LET starts == {i \in 1..Len(s) :
                   LET w == RunEnd(s, i, WhiteSpace)
                   IN w <= Len(s) /\ s[w] = sep}
  IN IF starts = {} THEN <<s>>
     ELSE LET a == SetMin(starts)
              w == RunEnd(s, a, WhiteSpace)
              b == RunEnd(s, w + 1, WhiteSpace)
          IN <<SubSeq(s, 1, a - 1)>> \o SplitAround(SubSeq(s, b, Len(s)), sep)

\* array.join(sep)
RECURSIVE Join(_, _)
Join(list, sep) ==
  IF list = <<>> THEN <<>>
  ELSE IF Len(list) = 1 THEN list[1]
  ELSE list[1] \o <<sep>> \o Join(Tail(list), sep)

\* String.prototype.startsWith
StartsWith(s, prefix) ==
  Len(s) >= Len(prefix) /\ SubSeq(s, 1, Len(prefix)) = prefix

\* v.replace(/[^\d.]/g, ""): the characters of a class kept
Keep(s, class) == SelectSeq(s, LAMBDA c : c \in class)

DigitValue(c) ==
  CHOOSE d \in 0..9 : <<"0", "1", "2", "3", "4", "5", "6", "7", "8", "9">>[d + 1] = c

\* the value of a run of decimal digits
RECURSIVE DecimalValue(_)
DecimalValue(ds) ==
  IF ds = <<>> THEN 0
  ELSE 10 * DecimalValue(SubSeq(ds, 1, Len(ds) - 1)) + DigitValue(ds[Len(ds)])

RECURSIVE StripTrailingZeros(_)
StripTrailingZeros(ds) ==
  IF ds # <<>> /\ ds[Len(ds)] = "0"
  THEN StripTrailingZeros(SubSeq(ds, 1, Len(ds) - 1))
  ELSE ds

\* a number: its integer part and the digits of its fraction, or NaN
Num(n) == [nan |-> FALSE, int |-> n, frac |-> <<>>]
NaN == [nan |-> TRUE, int |-> 0, frac |-> <<>>]

\* Number(s) for the strings in use: the empty string, decimal literals
\* without sign and exponent, and text that is no numeric literal
NumberOf(s) ==
  LET dots == {i \in 1..Len(s) : s[i] = "."}
      dot == IF dots = {} THEN Len(s) + 1 ELSE SetMin(dots)
  IN IF s = <<>> THEN Num(0)
     ELSE IF \/ \E i \in 1..Len(s) : s[i] \notin WeightChars
             \/ Cardinality(dots) > 1
             \/ Len(s) = Cardinality(dots)
     THEN NaN
     ELSE [nan |-> FALSE,
           int |-> DecimalValue(SubSeq(s, 1, dot - 1)),
           frac |-> StripTrailingZeros(SubSeq(s, dot + 1, Len(s)))]

\* v.match(/(\d+)\s*x\s*(\d+)/i) at position i: the groups, when it matches
SizeAt(v, i) ==
  LET e == RunEnd(v, i, DigitChars)
      x == RunEnd(v, e, WhiteSpace)
      h == RunEnd(v, x + 1, WhiteSpace)
  IN [matches |-> /\ v[i] \in DigitChars
                  /\ x <= Len(v) /\ LowerChar(v[x]) = "x"
                  /\ h <= Len(v) /\ v[h] \in DigitChars,
      width |-> SubSeq(v, i, e - 1),
      height |-> SubSeq(v, h, RunEnd(v, h, DigitChars) - 1)]

Steps == <<"s", "t", "e", "p", "s">>
Sampler == <<"s", "a", "m", "p", "l", "e", "r">>
Cfg == <<"c", "f", "g">>
Seed == <<"s", "e", "e", "d">>
Size == <<"s", "i", "z", "e">>
Model == <<"m", "o", "d", "e", "l">>

\* the body of the loop of parseHeaderLine for one part
HeaderEntry(meta, p) ==
  LET kv == SplitAround(p, ":")
      k == Lower(kv[1])
      v == Trim(Join(Tail(kv), ":"))
      n == NumberOf(Keep(v, WeightChars))
      at == {i \in 1..Len(v) : SizeAt(v, i).matches}
      m == SizeAt(v, SetMin(at))
  IN IF k = <<>> \/ v = <<>> THEN meta
     ELSE IF StartsWith(k, Steps)
     THEN IF n.nan THEN meta ELSE ("steps" :> n) @@ meta
     ELSE IF StartsWith(k, Sampler) THEN ("sampler" :> v) @@ meta
     ELSE IF StartsWith(k, Cfg)
     THEN IF n.nan THEN meta ELSE ("cfg" :> n) @@ meta
     ELSE IF StartsWith(k, Seed)
     THEN IF NumberOf(v).nan THEN ("seed" :> v) @@ meta
          ELSE ("seed" :> NumberOf(v)) @@ meta
     ELSE IF StartsWith(k, Size)
     THEN IF at = {} THEN meta
          ELSE ("size" :> [width |-> NumberOf(m.width),
                           height |-> NumberOf(m.height)]) @@ meta
     ELSE IF StartsWith(k, Model) THEN ("model" :> v) @@ meta
     ELSE meta

RECURSIVE HeaderEntries(_, _)
HeaderEntries(meta, parts) ==
  IF parts = <<>> THEN meta
  ELSE HeaderEntries(HeaderEntry(meta, Head(parts)), Tail(parts))

\* no field set
EmptyMeta == [k \in {} |-> 0]

parseHeaderLine(line) ==
  HeaderEntries(EmptyMeta, NonEmpty(SplitAround(line, ",")))

\* what parseA1111ParametersBlock returns for a block without a positive
\* prompt
Null == [null |-> TRUE]

\* positive = removeWeights(positive)
NormalizeWeightsBug(s) == s
NormalizeWeights(s) == removeWeights(s)

\* parseA1111ParametersBlock(raw, all) with loose = false
parseA1111ParametersBlock(raw) ==
  LET posNegSplit == SplitNegativePrompt(raw)
      m == NegativeAndTail(posNegSplit[2])
      hasNeg == Len(posNegSplit) > 1
      negative == IF hasNeg THEN Trim(m.negative) ELSE <<>>
      tail == IF hasNeg THEN Trim(m.tail) ELSE <<>>
      headerLine == IF tail # <<>> THEN tail ELSE LastLine(raw)
      meta == parseHeaderLine(headerLine)
      positive == Trim(NormalizeWeights(Trim(posNegSplit[1])))
      neg == Trim(NormalizeWeights(negative))
      info == ("positive" :> positive) @@ meta @@ ("raw" :> raw)
  IN IF positive = <<>> THEN Null
     ELSE IF neg = <<>> THEN info
     ELSE ("negative" :> neg) @@ info

\* HEADER_RE: the keys that begin a header line, in lower case
HeaderKeywords ==
  {Steps, Sampler, Cfg, <<"c", "f", "g", " ", "s", "c", "a", "l", "e">>, Seed, Size,
   Model, <<"h", "i", "r", "e", "s">>,
   <<"d", "e", "n", "o", "i", "s", "i", "n", "g">>, <<"c", "l", "i", "p">>,
   <<"e", "n", "s", "d">>}

\* /(?:^|\n)\s*(Steps|...|ENSD)\s*:/i matches from position i on
HeaderAt(s, i) ==
  LET w == RunEnd(s, IF i = 1 THEN 1 ELSE i + 1, WhiteSpace)
  IN /\ i = 1 \/ s[i] = "\n"
     /\ \E kw \in HeaderKeywords :
          /\ MatchesAt(s, w, kw)
          /\ LET c == RunEnd(s, w + Len(kw), WhiteSpace)
             IN c <= Len(s) /\ s[c] = ":"

\* s.search(HEADER_RE): the index of the first match, counted from 0, or -1
HeaderSearch(s) ==
  LET at == {i \in 1..Len(s) : HeaderAt(s, i)}
  IN IF at = {} THEN -1 ELSE SetMin(at) - 1

PositiveWord == <<"p", "o", "s", "i", "t", "i", "v", "e">>
PromptColon == <<"p", "r", "o", "m", "p", "t", ":">>

\* part.match(/Positive\s*prompt:\s*([\s\S]*)/i)?.[1], <<>> without a match
PositivePromptGroup(part) ==
  LET at == {i \in 1..Len(part) :
               /\ MatchesAt(part, i, PositiveWord)
               /\ MatchesAt(part, RunEnd(part, i + Len(PositiveWord), WhiteSpace),
                            PromptColon)}
      w == RunEnd(part, SetMin(at) + Len(PositiveWord), WhiteSpace)
      g == RunEnd(part, w + Len(PromptColon), WhiteSpace)
  IN IF at = {} THEN <<>> ELSE SubSeq(part, g, Len(part))

\* (mp?.[1] || part).trim()
Best(part) ==
  Trim(IF PositivePromptGroup(part) # <<>> THEN PositivePromptGroup(part) ELSE part)

\* parseA1111ParametersBlock(raw, all, true): without "Negative prompt:" the
\* text before the first header key is the positive prompt
parseA1111ParametersBlockLoose(raw) ==
  LET idx == HeaderSearch(raw)
      part == SubSeq(raw, 1, idx)
      tail == IF idx > 0 THEN SubSeq(raw, idx + 1, Len(raw)) ELSE <<>>
      best == Best(part)
      headerLine == IF tail # <<>> THEN tail ELSE LastLine(raw)
      positive == Trim(NormalizeWeights(Trim(raw)))
  IN IF Len(SplitNegativePrompt(raw)) > 1 THEN parseA1111ParametersBlock(raw)
     ELSE IF idx > 0 /\ best # <<>>
     THEN ("positive" :> removeWeights(best)) @@ parseHeaderLine(tail) @@
          ("raw" :> raw)
     ELSE IF positive = <<>> THEN Null
     ELSE ("positive" :> positive) @@ parseHeaderLine(headerLine) @@ ("raw" :> raw)

\* ---------------------------------------------------- PngInfo.parseFromFreeForm
\* /Negative prompt:\s*/i at position i: the position after the match, 0
\* when there is none
NegEnd(s, i) ==
  IF MatchesAt(s, i, NegativePrompt)
  THEN RunEnd(s, i + Len(NegativePrompt), WhiteSpace)
  ELSE 0

\* NEG.test(s)
HasNeg(s) == \E i \in 1..Len(s) : NegEnd(s, i) # 0

\* s.split(NEG)
RECURSIVE SplitNeg(_)
SplitNeg(s) ==
  LET starts == {i \in 1..Len(s) : NegEnd(s, i) # 0}
  IN IF starts = {} THEN <<s>>
     ELSE LET a == SetMin(starts)
          IN <<SubSeq(s, 1, a - 1)>> \o SplitNeg(SubSeq(s, NegEnd(s, a), Len(s)))

parseFromFreeForm(s) ==
  LET pieces == SplitNeg(s)
      m == NegativeAndTail(pieces[2])
      idx == HeaderSearch(s)
      positive == IF HasNeg(s) THEN Trim(pieces[1])
                  ELSE IF idx > 0 THEN Trim(SubSeq(s, 1, idx))
                  ELSE <<>>
      negative == IF HasNeg(s) THEN Trim(m.negative) ELSE <<>>
      tail == IF HasNeg(s) THEN Trim(m.tail)
              ELSE IF idx > 0 THEN Trim(SubSeq(s, idx + 1, Len(s)))
              ELSE <<>>
      info == ("positive" :> removeWeights(positive)) @@ parseHeaderLine(tail) @@
              ("raw" :> s)
  IN IF positive = <<>> THEN Null
     ELSE IF negative = <<>> THEN info
     ELSE ("negative" :> removeWeights(negative)) @@ info

\* ------------------------------------------------------- PngInfo.parseFromJson
\* a value of a parsed JSON text with its type; an object is a function from
\* its field names to values
Str(v) == [type |-> "string", val |-> v]
Number(n) == [type |-> "number", val |-> n]
JsonNull == [type |-> "null", val |-> <<>>]
Undefined == [type |-> "undefined", val |-> <<>>]

\* obj?.field
Field(obj, f) == IF f \in DOMAIN obj THEN obj[f] ELSE Undefined

\* a ?? b ?? ... ?? null over the fields of obj
RECURSIVE Coalesce(_, _)
Coalesce(obj, fields) ==
  IF fields = <<>> THEN JsonNull
  ELSE IF Field(obj, Head(fields)).type \in {"null", "undefined"}
  THEN Coalesce(obj, Tail(fields))
  ELSE Field(obj, Head(fields))

\* the truth value of a value in a condition
TruthyValue(x) ==
  CASE x.type = "string" -> x.val # <<>>
    [] x.type = "number" -> ~x.val.nan /\ (x.val.int # 0 \/ x.val.frac # <<>>)
    [] OTHER -> FALSE

\* Number(x) for a number or a string
NumberValue(x) == IF x.type = "number" THEN x.val ELSE NumberOf(Trim(x.val))

\* a field of the result that is set under a condition only
Opt(cond, name, val) == IF cond THEN name :> val ELSE EmptyMeta

\* if (info.positive) return info
JsonAcceptsBug(info) == TRUE
JsonAccepts(info) == "positive" \in DOMAIN info /\ info["positive"] # <<>>

parseFromJson(obj) ==
  LET pos == Coalesce(obj, <<"prompt", "positive", "caption", "text", "Prompt">>)
      neg == Coalesce(obj, <<"negative_prompt", "negative", "uc">>)
      info ==
        Opt(pos.type = "string", "positive", Trim(pos.val)) @@
        Opt(neg.type = "string", "negative", Trim(neg.val)) @@
        Opt(Field(obj, "steps").type = "number", "steps", Field(obj, "steps").val) @@
        Opt(Field(obj, "sampler").type = "string", "sampler",
            Field(obj, "sampler").val) @@
        Opt(Field(obj, "cfg_scale").type = "number", "cfg",
            Field(obj, "cfg_scale").val) @@
        Opt(Field(obj, "seed").type \notin {"null", "undefined"}, "seed",
            Field(obj, "seed").val) @@
        Opt(Field(obj, "model").type = "string", "model", Field(obj, "model").val) @@
        Opt(TruthyValue(Field(obj, "width")) /\ TruthyValue(Field(obj, "height")),
            "size", [width |-> NumberValue(Field(obj, "width")),
                     height |-> NumberValue(Field(obj, "height"))])
  IN IF JsonAccepts(info) THEN info ELSE Null

\* ----------------------------------------------------- PngInfo.pickFromTextMap
\* A text map is the sequence of its entries [k, v] in insertion order.
\* the JSON texts in use with what JSON.parse makes of them; a text that is
\* no JSON makes it throw
JsonBlank ==
  <<"{", "\"", "p", "r", "o", "m", "p", "t", "\"", ":", "\"", " ", "\"", ",",
    "\"", "p", "o", "s", "i", "t", "i", "v", "e", "\"", ":", "\"", "b", "\"",
    "}">>
JsonNumber ==
  <<"{", "\"", "p", "r", "o", "m", "p", "t", "\"", ":", "1", ",", "\"", "p",
    "o", "s", "i", "t", "i", "v", "e", "\"", ":", "\"", "b", "\"", "}">>
JsonFull ==
  <<"{", "\"", "t", "e", "x", "t", "\"", ":", "n", "u", "l", "l", ",", "\"",
    "P", "r", "o", "m", "p", "t", "\"", ":", "\"", " ", "c", "\"", ",", "\"",
    "u", "c", "\"", ":", "\"", "\"", ",", "\"", "s", "t", "e", "p", "s",
    "\"", ":", "2", ",", "\"", "s", "e", "e", "d", "\"", ":", "\"", "s",
    "\"", ",", "\"", "w", "i", "d", "t", "h", "\"", ":", "1", ",", "\"", "h",
    "e", "i", "g", "h", "t", "\"", ":", "\"", "2", "\"", "}">>
JsonBroken == <<"{", "x">>
Threw == [threw |-> TRUE]

JsonParse(v) ==
  CASE v = JsonBlank -> ("prompt" :> Str(<<" ">>)) @@ ("positive" :> Str(<<"b">>))
    [] v = JsonNumber -> ("prompt" :> Number(Num(1))) @@ ("positive" :> Str(<<"b">>))
    [] v = JsonFull ->
         ("text" :> JsonNull) @@ ("Prompt" :> Str(<<" ", "c">>)) @@
         ("uc" :> Str(<<>>)) @@ ("steps" :> Number(Num(2))) @@
         ("seed" :> Str(<<"s">>)) @@ ("width" :> Number(Num(1))) @@
         ("height" :> Str(<<"2">>))
    [] OTHER -> Threw

\* /^\s*[\{\[]/.test(v)
JsonCandidate(v) ==
  LET w == RunEnd(v, 1, WhiteSpace)
  IN w <= Len(v) /\ v[w] \in {"{", "["}

\* lower[k.toLowerCase()] = String(v ?? "") for every entry, in order
RECURSIVE LowerEntries(_, _)
LowerEntries(entries, lower) ==
  IF entries = <<>> THEN lower
  ELSE LET k == Lower(Head(entries).k)
           at == {i \in 1..Len(lower) : lower[i].k = k}
       IN LowerEntries(Tail(entries),
            IF at = {} THEN Append(lower, [k |-> k, v |-> Head(entries).v])
            ELSE [lower EXCEPT ![SetMin(at)].v = Head(entries).v])

\* lower[k], the empty string standing for an absent key
ValueOf(lower, k) ==
  LET at == {i \in 1..Len(lower) : lower[i].k = k}
  IN IF at = {} THEN <<>> ELSE lower[SetMin(at)].v

\* Object.values(lower)
Values(lower) == [i \in 1..Len(lower) |-> lower[i].v]

Parameters == <<"p", "a", "r", "a", "m", "e", "t", "e", "r", "s">>
LooseKeys == <<<<"d", "e", "s", "c", "r", "i", "p", "t", "i", "o", "n">>, <<"c", "o", "m", "m", "e", "n", "t">>, <<"p", "n", "g", "i", "n", "f", "o">>, <<"s", "o", "f", "t", "w", "a", "r", "e">>>>

\* 1) the key "parameters"
HasParameters(lower) == \E i \in 1..Len(lower) : lower[i].k = Parameters
StandardResult(lower) == parseA1111ParametersBlock(ValueOf(lower, Parameters))

\* 2) the first of the keys description, comment, pnginfo, software whose
\* text the loose parser accepts
RECURSIVE LooseResult(_, _)
LooseResult(lower, keys) ==
  IF keys = <<>> THEN Null
  ELSE LET info == parseA1111ParametersBlockLoose(ValueOf(lower, Head(keys)))
       IN IF ValueOf(lower, Head(keys)) # <<>> /\ info # Null THEN info
          ELSE LooseResult(lower, Tail(keys))

\* 3) the first value that looks like JSON, parses and yields a record
RECURSIVE JsonResult(_)
JsonResult(values) ==
  IF values = <<>> THEN Null
  ELSE LET obj == JsonParse(Head(values))
       IN IF /\ JsonCandidate(Head(values))
             /\ obj # Threw
             /\ parseFromJson(obj) # Null
          THEN parseFromJson(obj)
          ELSE JsonResult(Tail(values))

\* 4) the first value that holds "Negative prompt:"
WithNeg(values) == SelectSeq(values, HasNeg)
FreeFormResult(values) == parseFromFreeForm(Head(WithNeg(values)))

\* 5) all values joined
WholeMapResult(values) == parseFromFreeForm(Join(values, "\n"))

\* the raw field is the text map in every dialect
WithRaw(info, textMap) ==
  IF info = Null THEN Null ELSE ("raw" :> textMap) @@ info

pickFromTextMap(textMap) ==
  LET lower == LowerEntries(textMap, <<>>)
      values == Values(lower)
  IN WithRaw(
       IF HasParameters(lower) THEN StandardResult(lower)
       ELSE IF LooseResult(lower, LooseKeys) # Null THEN LooseResult(lower, LooseKeys)
       ELSE IF JsonResult(values) # Null THEN JsonResult(values)
       ELSE IF WithNeg(values) # <<>> THEN FreeFormResult(values)
       ELSE WholeMapResult(values),
       textMap)

\* -------------------------------------------- promptLabels.parseModelPromptLabel
ModelColon == <<"m", "o", "d", "e", "l", ":">>

\* /(?:^|,\s*)Model:\s*([^,\n\r]+)/i at position i: the position of
\* "Model:", 0 when the prefix does not match there
ModelMarkerAt(s, i) ==
  IF i = 1 /\ MatchesAt(s, 1, ModelColon) THEN 1
  ELSE IF s[i] = "," /\ MatchesAt(s, RunEnd(s, i + 1, WhiteSpace), ModelColon)
  THEN RunEnd(s, i + 1, WhiteSpace)
  ELSE 0

\* the places the group ([^,\n\r]+) can start after "Model:" at position m:
\* \s* gives back white space until a character of the group follows
ModelValueStarts(s, m) ==
  LET from == m + Len(ModelColon)
  IN {g \in from..RunEnd(s, from, WhiteSpace) :
        g <= Len(s) /\ s[g] \notin {",", "\n", "\r"}}

\* modelMatch[1], <<>> when there is no match
ModelMatch(s) ==
  LET at == {i \in 1..Len(s) :
               /\ ModelMarkerAt(s, i) # 0
               /\ ModelValueStarts(s, ModelMarkerAt(s, i)) # {}}
      g == SetMax(ModelValueStarts(s, ModelMarkerAt(s, SetMin(at))))
  IN IF at = {} THEN <<>>
     ELSE SubSeq(s, g, RunEnd(s, g, {s[x] : x \in 1..Len(s)} \ {",", "\n", "\r"}) - 1)

\* parseModelPromptLabel: the label, <<>> for null
parseModelPromptLabel(prompt) == cleanToken(ModelMatch(prompt))

\* ------------------------------------------------- the standard-dialect scenario
LineFeed == <<"\n">>
ScenarioPositive ==
  <<"a", " ", "c", "a", "t", ",", " ", "(", "t", "r", "e", "e", ":", "1", ".",
    "1", ")">>
ScenarioNegative ==
  <<"N", "e", "g", "a", "t", "i", "v", "e", " ", "p", "r", "o", "m", "p", "t",
    ":", " ", "b", "l", "u", "r", "r", "y">>
ScenarioModel ==
  <<"M", "o", "d", "e", "l", ":", " ", "f", "o", "o", ".", "s", "a", "f", "e",
    "t", "e", "n", "s", "o", "r", "s">>
ScenarioHeader ==
  <<"S", "t", "e", "p", "s", ":", " ", "2", "0", ",", " ",
    "S", "a", "m", "p", "l", "e", "r", ":", " ", "E", "u", "l", "e", "r", " ",
    "a", ",", " ",
    "C", "F", "G", " ", "s", "c", "a", "l", "e", ":", " ", "7", ",", " ",
    "S", "e", "e", "d", ":", " ", "4", "2", ",", " ",
    "S", "i", "z", "e", ":", " ", "5", "1", "2", "x", "5", "1", "2", ",", " ">>
  \o ScenarioModel
\* the text of the key "parameters"
ScenarioParameters ==
  ScenarioPositive \o LineFeed \o ScenarioNegative \o LineFeed \o ScenarioHeader
\* the positive prompt the scenario yields
ScenarioPrompt ==
  <<"a", " ", "c", "a", "t", ",", " ", "(", "t", "r", "e", "e", ")">>

\* the segments of the header lines parseHeaderLine is called with
StepsSegment ==
  <<"S", "t", "e", "p", "s", ":", " ", "2", "0">>
StepsWords ==
  <<"s", "t", "e", "p", "s", ":", " ", "a", "b", "c">>
CfgWords ==
  <<"C", "F", "G", " ", "s", "c", "a", "l", "e", ":", " ", "n", "o", "n", "e">>
SeedSegment ==
  <<"S", "E", "E", "D", ":", " ", "4", "2">>
SizeSegment ==
  <<"S", "i", "z", "e", ":", " ", "5", "1", "2", "x", "5", "1", "2">>
SamplerSegment ==
  <<"S", "a", "m", "p", "l", "e", "r", ":", " ", "E", "u", "l", "e", "r",
    " ", "a">>
ModelHash ==
  <<"M", "o", "d", "e", "l", " ", "h", "a", "s", "h", ":", " ", "a", "b">>
ModelSegment ==
  <<"M", "o", "d", "e", "l", ":", " ", "f", "o", "o">>
HeaderSegments ==
  {StepsSegment, StepsWords, CfgWords, SeedSegment,
   SizeSegment, SamplerSegment, ModelHash, ModelSegment}

\* the header lines of up to MaxSegments segments
RECURSIVE HeaderLineOf(_)
HeaderLineOf(segments) ==
  IF segments = <<>> THEN <<>>
  ELSE IF Len(segments) = 1 THEN segments[1]
  ELSE segments[1] \o <<",", " ">> \o HeaderLineOf(Tail(segments))

HeaderInputs ==
  UNION {{HeaderLineOf(line) : line \in [1..n -> HeaderSegments]} : n \in 0..MaxSegments}

\* the parameter blocks parseA1111ParametersBlock is called with: the
\* scenario and the blocks that lack some of its three parts or have the
\* first header field on the line of the negative prompt
BlockInputs ==
  {p \o n \o h : p \in {<<>>, ScenarioPositive},
                 n \in {<<>>, LineFeed \o ScenarioNegative,
                        LineFeed \o ScenarioNegative \o <<",", " ">> \o StepsSegment},
                 h \in {<<>>, LineFeed \o ScenarioHeader}}

\* the prompts parseModelPromptLabel is called with
ModelInputs == BlockInputs \cup {ScenarioModel, ScenarioPrompt}

\* the arguments the label functions are called with
TokenAlphabet == {"a", "n", "A", ",", " ", "|"}
CatCatDog ==
  <<"C", "a", "t", ",", " ", "c", "a", "t", ",", " ", "D", "O", "G">>
TokenInputs == Strings(TokenAlphabet, MaxTextLen) \cup {CatCatDog, ScenarioPrompt}

\* the arguments removeWeights is called with
WeightAlphabet == {"a", "1", ":", "(", ")", " "}
WeightInputs == Strings(WeightAlphabet, MaxTextLen)

TextInputs ==
  WeightInputs \cup TokenInputs \cup BlockInputs \cup ModelInputs \cup HeaderInputs

\* the text functions are called on their own: pool and application at rest
AtRest ==
  /\ PoolInit
  /\ requested = 2
  /\ onError = FALSE
  /\ variant = "main"
  /\ pollPc = "off"
  /\ cycle = 0
  /\ inFlightPhotoUids = {}
  /\ taskUid = [t \in TaskIds |-> ""]
  /\ taskCycle = [t \in TaskIds |-> 0]
  /\ taskFile = [t \in TaskIds |-> <<>>]
  /\ taskPc = [t \in TaskIds |-> "none"]
  /\ labelsLeft = [t \in TaskIds |-> 0]
  /\ labelCount = [t \in TaskIds |-> 0]
  /\ opLog = [t \in TaskIds |-> <<>>]
  /\ remoteMarker = {}
  /\ faults = 0
  /\ clock = 0 /\ startedAt = 0 /\ elapsedMs = 0 /\ waitMs = 0
  /\ queryFailed = {}

TextInit ==
  /\ AtRest
  /\ text \in TextInputs
  /\ fn = "none"
  /\ out = <<>>
  /\ lookup = LookupOff /\ stable = StableOff /\ watcher = WatcherOff

restVars == <<poolVars, variant, pollPc, cycle, inFlightPhotoUids, taskVars,
              remoteMarker, faults, paceVars, queryFailed>>

Call(inputs, name, result) ==
  /\ fn = "none"
  /\ text \in inputs
  /\ fn' = name
  /\ out' = result
  /\ UNCHANGED <<text, restVars, helperVars>>

CallRemoveWeights == Call(WeightInputs, "removeWeights", removeWeights(text))

CallParsePositivePromptLabels ==
  Call(TokenInputs, "parsePositivePromptLabels", parsePositivePromptLabels(text))

CallPromptToTags == Call(TokenInputs, "promptToTags", promptToTags(text))

CallParseModelPromptLabel ==
  Call(ModelInputs, "parseModelPromptLabel", parseModelPromptLabel(text))

CallParseA1111ParametersBlock ==
  Call(BlockInputs, "parseA1111ParametersBlock", parseA1111ParametersBlock(text))

CallParseHeaderLine == Call(HeaderInputs, "parseHeaderLine", parseHeaderLine(text))

TextNext ==
  \/ CallRemoveWeights
  \/ CallParseHeaderLine
  \/ CallParseModelPromptLabel
  \/ CallParseA1111ParametersBlock
  \/ CallParsePositivePromptLabels
  \/ CallPromptToTags

TextSpec == TextInit /\ [][TextNext]_vars

\* ------------------------------------------------- the metadata format parser
\* the keys and the texts of the text maps the parser is called with
MapKeys ==
  {<<"P", "a", "r", "a", "m", "e", "t", "e", "r", "s">>,
   <<"C", "o", "m", "m", "e", "n", "t">>, <<"p", "r", "o", "m", "p", "t">>,
   <<"t", "i", "t", "l", "e">>}
PromptAndHeader ==
  <<"(", "a", ":", "1", ")", "\n", "S", "t", "e", "p", "s", ":", " ", "2">>
NegativeOnly ==
  <<"N", "e", "g", "a", "t", "i", "v", "e", " ", "p", "r", "o", "m", "p",
    "t", ":", " ", "b">>
FullBlock ==
  <<"a", "\n", "N", "e", "g", "a", "t", "i", "v", "e", " ", "p", "r", "o",
    "m", "p", "t", ":", " ", "b", "\n", "S", "e", "e", "d", ":", " ", "x">>
MapTexts ==
  {<<>>, PromptAndHeader, NegativeOnly, FullBlock, JsonBlank, JsonNumber, JsonFull,
   JsonBroken}
MapEntries == [k : MapKeys, v : MapTexts]

\* the text maps of up to MaxEntries entries with different keys
TextMaps ==
  UNION {{m \in [1..n -> MapEntries] : \A i, j \in 1..n : i # j => m[i].k # m[j].k} :
           n \in 0..MaxEntries}

MapInit ==
  /\ AtRest
  /\ text \in TextMaps
  /\ fn = "none"
  /\ out = <<>>
  /\ lookup = LookupOff /\ stable = StableOff /\ watcher = WatcherOff

MapCall(name, result) ==
  /\ fn = "none"
  /\ fn' = name
  /\ out' = result
  /\ UNCHANGED <<text, restVars, helperVars>>

MapPickFromTextMap == MapCall("pickFromTextMap", pickFromTextMap(text))

\* each dialect's parser on its own, on a text of the map
MapParseStandard ==
  \E i \in 1..Len(text) :
    MapCall("parseA1111ParametersBlock", parseA1111ParametersBlock(text[i].v))

MapParseLoose ==
  \E i \in 1..Len(text) :
    MapCall("parseA1111ParametersBlockLoose", parseA1111ParametersBlockLoose(text[i].v))

MapParseFromJson ==
  \E i \in 1..Len(text) :
    /\ JsonCandidate(text[i].v)
    /\ JsonParse(text[i].v) # Threw
    /\ MapCall("parseFromJson", parseFromJson(JsonParse(text[i].v)))

MapParseFromFreeForm ==
  \E i \in 1..Len(text) :
    MapCall("parseFromFreeForm", parseFromFreeForm(text[i].v))

MapNext ==
  \/ MapPickFromTextMap
  \/ MapParseStandard
  \/ MapParseLoose
  \/ MapParseFromJson
  \/ MapParseFromFreeForm

MapSpec == MapInit /\ [][MapNext]_vars

\* ------------------------------------ PhotoPrismClient.listCaptionlessPhotos
\* the answers listCaptionlessPhotos is called on its own with: the UID field
\* may also be blank or have white space around the uid
PaddedUids == RawUids \cup {" ", " u1"}
ListAnswers ==
  [items : UNION {[1..n -> [UID : PaddedUids, FileName : RawFileNames]] :
                    n \in 0..MaxItems},
   fetched : [UIDs -> {<<>>, <<"a", "PNG">>}]]

ListInit ==
  /\ AtRest
  /\ text \in ListAnswers
  /\ fn = "none"
  /\ out = <<>>
  /\ lookup = LookupOff /\ stable = StableOff /\ watcher = WatcherOff

\* the query succeeds or fails
CallListCaptionlessPhotos ==
  /\ fn = "none"
  /\ \E ok \in BOOLEAN :
       /\ fn' = IF ok THEN "listCaptionlessPhotos" ELSE "listCaptionlessPhotos failed"
       /\ out' = ListCaptionlessPhotos(ok, text.items, text.fetched)
  /\ UNCHANGED <<text, restVars, helperVars>>

ListSpec == ListInit /\ [][CallListCaptionlessPhotos]_vars

\* --------------------------------------------------- parseAllPngTextChunks
\* the bytes of the chunk data: the separator 0, a control character and a
\* letter
Bytes == {0, 1, 65}

\* the character of a byte; latin1, ascii and utf8 agree on these bytes
Chr(b) == CASE b = 0 -> "NUL" [] b = 1 -> "SOH" [] b = 65 -> "A"

\* Buffer.toString
ToText(bytes) == [i \in 1..Len(bytes) |-> Chr(bytes[i])]

\* the zlib stream of the text "A"
DeflatedA == <<120, 156, 115, 4, 0, 0, 66, 0, 66>>

\* zlib.inflateSync on the data in use: no sequence of the bytes 0, 1 and 65
\* is a zlib stream; the result is the buffer, or the call threw
InflateSync(bytes) ==
  IF bytes = DeflatedA THEN [threw |-> FALSE, buf |-> <<65>>]
  ELSE [threw |-> TRUE, buf |-> <<>>]

\* data.indexOf(0x00, off): offsets count from 0, -1 when there is none
IndexOfZero(data, off) ==
  LET zeros == {i \in 0..Len(data) - 1 : i >= off /\ data[i + 1] = 0}
  IN IF zeros = {} THEN -1 ELSE SetMin(zeros)

\* data.subarray(start, end) and data.subarray(start)
Subarray(data, start, end) ==
  IF start >= end THEN <<>> ELSE SubSeq(data, start + 1, end)
SubarrayFrom(data, start) == Subarray(data, start, Len(data))

\* data[off]: the byte, or NoByte past the end
NoByte == -1
ByteAt(data, off) == IF off < Len(data) THEN data[off + 1] ELSE NoByte

\* (out[keyword] ||= []).push(text), the entries in the order of their first
\* text
Push(acc, keyword, t) ==
  IF \E i \in 1..Len(acc) : acc[i].k = keyword
  THEN [i \in 1..Len(acc) |->
          IF acc[i].k = keyword THEN [k |-> keyword, v |-> Append(acc[i].v, t)]
          ELSE acc[i]]
  ELSE Append(acc, [k |-> keyword, v |-> <<t>>])

\* method === 0 ? zlib.inflateSync(comp) : comp
Method(method, comp) ==
  IF method = 0 THEN InflateSync(comp) ELSE [threw |-> FALSE, buf |-> comp]

DecodeTEXt(acc, data) ==
  LET i == IndexOfZero(data, 0)
  IN IF i > 0
     THEN Push(acc, ToText(Subarray(data, 0, i)), ToText(SubarrayFrom(data, i + 1)))
     ELSE acc

DecodeZTXt(acc, data) ==
  LET i == IndexOfZero(data, 0)
      method == ByteAt(data, i + 1)
      textBuf == Method(method, SubarrayFrom(data, i + 2))
  IN IF i > 0 /\ Len(data) > i + 2 /\ ~textBuf.threw
     THEN Push(acc, ToText(Subarray(data, 0, i)), ToText(textBuf.buf))
     ELSE acc

\* readNT: the offset after the terminated string that begins at off
AfterNT(data, off) ==
  IF IndexOfZero(data, off) >= 0 THEN IndexOfZero(data, off) + 1 ELSE Len(data)

\* the fields of an iTXt chunk
ITXtFields(data) ==
  LET z == IndexOfZero(data, 0)
      off == AfterNT(data, 0)
      start == AfterNT(data, AfterNT(data, off + 2))
  IN [keyword |-> IF z >= 0 THEN Subarray(data, 0, z) ELSE data,
      off |-> off,
      compFlag |-> ByteAt(data, off),
      compMethod |-> ByteAt(data, off + 1),
      textBytes |-> SubarrayFrom(data, start)]

DecodeITXt(acc, data) ==
  LET f == ITXtFields(data)
      textBuf == IF f.compFlag # 0 THEN Method(f.compMethod, f.textBytes)
                 ELSE [threw |-> FALSE, buf |-> f.textBytes]
  IN IF f.off >= Len(data) \/ textBuf.threw THEN acc
     ELSE Push(acc, ToText(f.keyword), ToText(textBuf.buf))

\* the body of the loop over the chunks
DecodeChunk(acc, ch) ==
  IF ch.name = "tEXt" THEN DecodeTEXt(acc, ch.data)
  ELSE IF ch.name = "zTXt" THEN DecodeZTXt(acc, ch.data)
  ELSE IF ch.name = "iTXt" THEN DecodeITXt(acc, ch.data)
  ELSE acc

RECURSIVE DecodeChunks(_, _)
DecodeChunks(acc, chunks) ==
  IF chunks = <<>> THEN acc
  ELSE DecodeChunks(DecodeChunk(acc, Head(chunks)), Tail(chunks))

\* flat[k] = arr.join("\n")
Flat(acc) == [i \in 1..Len(acc) |-> [k |-> acc[i].k, v |-> Join(acc[i].v, "\n")]]

parseAllPngTextChunks(chunks) == Flat(DecodeChunks(<<>>, chunks))

\* the chunks of the buffers parseAllPngTextChunks is called with: every
\* data of up to MaxData bytes under every name, and the compressed chunks
\* with a keyword, a compression method and a text, deflated where the
\* method says so
ChunkNames == {"tEXt", "zTXt", "iTXt", "IDAT"}
Keyword == <<65, 0>>
CompressedChunks ==
  {[name |-> "zTXt",
    data |-> Keyword \o <<method>> \o (IF method = 0 THEN DeflatedA ELSE <<65>>)] :
     method \in {0, 1}}
    \cup {[name |-> "iTXt",
           data |-> Keyword \o <<flag, method, 0, 0>> \o
                      (IF flag = 1 /\ method = 0 THEN DeflatedA ELSE <<65>>)] :
            flag \in {0, 1}, method \in {0, 1}}
Chunks == [name : ChunkNames, data : Strings(Bytes, MaxData)] \cup CompressedChunks

\* the buffer is read chunk by chunk: text holds the chunks read, out the
\* texts collected by keyword
ChunkInit ==
  /\ AtRest
  /\ text = <<>>
  /\ fn = "none"
  /\ out = <<>>
  /\ lookup = LookupOff /\ stable = StableOff /\ watcher = WatcherOff

NextChunk ==
  /\ fn = "none"
  /\ Len(text) < MaxChunks
  /\ \E ch \in Chunks :
       /\ text' = Append(text, ch)
       /\ out' = DecodeChunk(out, ch)
  /\ UNCHANGED <<fn, restVars, helperVars>>

ReturnFlat ==
  /\ fn = "none"
  /\ fn' = "parseAllPngTextChunks"
  /\ out' = Flat(out)
  /\ UNCHANGED <<text, restVars, helperVars>>

ChunkNext == NextChunk \/ ReturnFlat

ChunkSpec == ChunkInit /\ [][ChunkNext]_vars

\* ------------------------------- PhotoPrismClient.waitForPhotoUidByFilename
\* what one lookup request can bring: a failed request, a response without
\* an item or without the UID field, a blank UID, or a uid
LookupAnswers == {"error", "none", ""} \cup UIDs

\* null
NullUid == "null"

\* findPhotoUidByFilename: res.data?.[0]?.UID ?? null, and null when the
\* request fails
FindPhotoUidByFilename(answer) ==
  IF answer \in {"error", "none"} THEN NullUid ELSE answer

\* if (uid)
TruthyBug(uid) == uid # NullUid
Truthy(uid) == uid \notin {NullUid, ""}

\* the watcher's processFile reaches the lookup with a non-empty labels
\* array and an attempt budget
LookupInit ==
  /\ AtRest
  /\ text = <<>> /\ fn = "none" /\ out = <<>>
  /\ stable = StableOff /\ watcher = WatcherOff
  /\ \E attempts \in 0..MaxAttempts, labels \in 1..MaxLabels :
       lookup = [pc |-> "loop", attempts |-> attempts, i |-> 0, log |-> <<>>,
                 result |-> NullUid, labels |-> labels, writes |-> 0]

LookupFrame == UNCHANGED <<restVars, text, fn, out, stable, watcher>>

\* for (let i = 0; i < attempts; i += 1), and return null after the loop
LoopTest ==
  /\ lookup.pc = "loop"
  /\ lookup' = IF lookup.i < lookup.attempts
               THEN [lookup EXCEPT !.pc = "find"]
               ELSE [lookup EXCEPT !.pc = "returned", !.result = NullUid]
  /\ LookupFrame

\* const uid = await this.findPhotoUidByFilename(...); if (uid) return uid
Find ==
  /\ lookup.pc = "find"
  /\ \E answer \in LookupAnswers :
       LET uid == FindPhotoUidByFilename(answer)
       IN lookup' = IF Truthy(uid)
                    THEN [lookup EXCEPT !.pc = "returned", !.result = uid,
                                        !.log = Append(@, answer)]
                    ELSE [lookup EXCEPT !.pc = "sleep", !.log = Append(@, answer)]
  /\ LookupFrame

\* await sleep(intervalMs), then i += 1
LookupSleep ==
  /\ lookup.pc = "sleep"
  /\ lookup' = [lookup EXCEPT !.pc = "loop", !.i = @ + 1]
  /\ LookupFrame

\* processFile: if (!uid) return, else on to the label writes
AfterLookup ==
  /\ lookup.pc = "returned"
  /\ lookup' = IF ~Truthy(lookup.result)
               THEN [lookup EXCEPT !.pc = "done"]
               ELSE [lookup EXCEPT !.pc = "labels"]
  /\ LookupFrame

\* processFile: addLabel for each label, then for the marker label
LookupAddLabel ==
  /\ lookup.pc = "labels"
  /\ lookup' = [lookup EXCEPT !.writes = @ + 1,
                              !.pc = IF lookup.writes = lookup.labels
                                     THEN "done" ELSE "labels"]
  /\ LookupFrame

LookupNext ==
  \/ LoopTest
  \/ Find
  \/ LookupSleep
  \/ AfterLookup
  \/ LookupAddLabel

LookupSpec == LookupInit /\ [][LookupNext]_vars

\* ------------------------------------------------------------ waitForStable
\* what fs.stat can bring: the size of the file, or a failure
Gone == -2
StatAnswers == (0..MaxSize) \cup {Gone}

\* let lastSize = -1
InitialLastSize == -1

\* if (currentSize === lastSize)
SameSizeBug(currentSize, lastSize) == TRUE
SameSize(currentSize, lastSize) == currentSize = lastSize

\* waitForStable is called: start = Date.now(), with the clock counted from
\* the call
StableInit ==
  /\ AtRest
  /\ text = <<>> /\ fn = "none" /\ out = <<>>
  /\ lookup = LookupOff /\ watcher = WatcherOff
  /\ \E timeoutMs \in 0..MaxTimeout, interval \in 1..MaxInterval :
       stable = [pc |-> "loop", timeoutMs |-> timeoutMs, pollIntervalMs |-> interval,
                 now |-> 0, start |-> 0, lastSize |-> InitialLastSize,
                 reads |-> <<>>, cause |-> "none"]

StableFrame == UNCHANGED <<restVars, text, fn, out, lookup, watcher>>

\* while (Date.now() - start < timeoutMs), and the return after the loop
StableLoopTest ==
  /\ stable.pc = "loop"
  /\ stable' = IF stable.now - stable.start < stable.timeoutMs
               THEN [stable EXCEPT !.pc = "stat"]
               ELSE [stable EXCEPT !.pc = "returned", !.cause = "timeout"]
  /\ StableFrame

\* await fs.stat(filePath) in its try block, the comparison with lastSize
\* and the assignment; the call takes some time
Stat ==
  /\ stable.pc = "stat"
  /\ \E answer \in StatAnswers, took \in 0..MaxLate :
       stable' =
         IF answer = Gone
         THEN [stable EXCEPT !.pc = "returned", !.cause = "gone",
                             !.reads = Append(@, answer), !.now = @ + took]
         ELSE IF SameSize(answer, stable.lastSize)
         THEN [stable EXCEPT !.pc = "returned", !.cause = "stable",
                             !.reads = Append(@, answer), !.now = @ + took]
         ELSE [stable EXCEPT !.pc = "sleep", !.lastSize = answer,
                             !.reads = Append(@, answer), !.now = @ + took]
  /\ StableFrame

\* await sleep(pollIntervalMs)
StableSleep ==
  /\ stable.pc = "sleep"
  /\ \E late \in 0..MaxLate :
       stable' = [stable EXCEPT !.pc = "loop",
                                !.now = @ + SleepTime(stable.pollIntervalMs, late)]
  /\ StableFrame

StableNext ==
  \/ StableLoopTest
  \/ Stat
  \/ StableSleep

StableSpec == StableInit /\ [][StableNext]_vars

\* the promises of fs.stat and of sleep settle, and the continuation of an
\* await runs once its promise has settled
StableFairSpec == StableSpec /\ WF_vars(StableNext)

\* ------------------------------------------------- NextcloudFolderWatcher
\* the watched folder as PROPFIND reports it: the entries of the root
\* collection and those of its one sub-collection, in the order of the answers
RootEntries == <<"a.png", "t", "n.txt">>
ChildEntries == <<"t/B.PNG">>
WatchedPaths == Range(RootEntries) \cup Range(ChildEntries)
Etags == {"e1", "e2"}

\* /<d:collection\/>/.test(e.props)
IsDir(path) == path = "t"

\* f.path.toLowerCase().endsWith(".png")
EndsWithPng(path) == path \in {"a.png", "t/B.PNG"}

\* this.seen[path] is undefined
NotSeen == "undefined"

\* out.push({ path: remotePath, etag: e.etag, isDir }) for each entry of one
\* PROPFIND answer
Entries(paths, remote) ==
  [n \in 1..Len(paths) |->
     [path |-> paths[n], etag |-> remote[paths[n]], isDir |-> IsDir(paths[n])]]

\* the first collection among the entries, 0 when there is none
RECURSIVE FirstDir(_, _)
FirstDir(entries, n) ==
  IF n > Len(entries) THEN 0
  ELSE IF entries[n].isDir THEN n
  ELSE FirstDir(entries, n + 1)

\* found.filter((f) => !f.isDir && f.path.toLowerCase().endsWith(".png"))
Files(found) == SelectSeq(found, LAMBDA f : ~f.isDir /\ EndsWithPng(f.path))

\* if (prev && prev.etag === it.etag) continue
Unchanged(seen, it) == seen[it.path] # NotSeen /\ seen[it.path] = it.etag

\* a call of tick(): const found = [], then await this.walk(root, found)
NewTick == [pc |-> "walk", found |-> <<>>, rest |-> <<>>, files |-> <<>>, i |-> 0]

\* the constructor has run, with this.seen = this.loadSeen() either empty or
\* as an earlier run saved it, and start() has called the first tick()
WatcherInit ==
  /\ AtRest
  /\ text = <<>> /\ fn = "none" /\ out = <<>>
  /\ lookup = LookupOff /\ stable = StableOff
  /\ \E dry \in BOOLEAN, loaded \in BOOLEAN :
       LET remote == [p \in WatchedPaths |-> "e1"]
           seen == [p \in WatchedPaths |->
                      IF loaded /\ EndsWithPng(p) THEN remote[p] ELSE NotSeen]
       IN watcher = [pc |-> "on", dry |-> dry, remote |-> remote, seen |-> seen,
                     saved |-> seen, ticks |-> <<NewTick>>, timer |-> FALSE,
                     changes |-> 0, tagged |-> <<>>]

WatcherFrame == UNCHANGED <<restVars, text, fn, out, lookup, stable>>

\* walk(root): await this.propfind(collectionHref, 1) answers, the entries
\* are pushed up to the first collection, whose walk is awaited next
PropfindRoot(k) ==
  /\ watcher.pc = "on" /\ k \in 1..Len(watcher.ticks)
  /\ watcher.ticks[k].pc = "walk"
  /\ LET entries == Entries(RootEntries, watcher.remote)
         d == FirstDir(entries, 1)
     IN watcher' =
          IF d = 0
          THEN [watcher EXCEPT !.ticks[k].found = entries,
                               !.ticks[k].files = Files(entries),
                               !.ticks[k].i = 1,
                               !.ticks[k].pc = "loop"]
          ELSE [watcher EXCEPT !.ticks[k].found = SubSeq(entries, 1, d),
                               !.ticks[k].rest = SubSeq(entries, d + 1, Len(entries)),
                               !.ticks[k].pc = "walkChild"]
  /\ WatcherFrame

\* walk(child): the PROPFIND of the sub-collection answers, its entries are
\* pushed, the loop of the root goes on with the entries it had received, and
\* tick() filters what was found
PropfindChild(k) ==
  /\ watcher.pc = "on" /\ k \in 1..Len(watcher.ticks)
  /\ watcher.ticks[k].pc = "walkChild"
  /\ LET found == watcher.ticks[k].found \o Entries(ChildEntries, watcher.remote)
                    \o watcher.ticks[k].rest
     IN watcher' = [watcher EXCEPT !.ticks[k].found = found,
                                   !.ticks[k].rest = <<>>,
                                   !.ticks[k].files = Files(found),
                                   !.ticks[k].i = 1,
                                   !.ticks[k].pc = "loop"]
  /\ WatcherFrame

\* propfind throws (status >= 400, or the request fails): the catch of tick()
\* logs it, this.saveSeen() is not reached
PropfindThrows(k) ==
  /\ watcher.pc = "on" /\ k \in 1..Len(watcher.ticks)
  /\ watcher.ticks[k].pc \in {"walk", "walkChild"}
  /\ watcher' = [watcher EXCEPT !.ticks[k].pc = "done"]
  /\ WatcherFrame

\* one turn of for (const it of files) up to its await, and this.saveSeen()
\* after the loop
LoopStep(k) ==
  /\ watcher.pc = "on" /\ k \in 1..Len(watcher.ticks)
  /\ watcher.ticks[k].pc = "loop"
  /\ LET tick == watcher.ticks[k]
         it == tick.files[tick.i]
     IN watcher' =
          IF tick.i > Len(tick.files)
          THEN [watcher EXCEPT !.saved = watcher.seen, !.ticks[k].pc = "done"]
          ELSE IF Unchanged(watcher.seen, it)
          THEN [watcher EXCEPT !.ticks[k].i = @ + 1]
          ELSE IF watcher.dry
          THEN [watcher EXCEPT !.seen[it.path] = it.etag, !.ticks[k].i = @ + 1]
          ELSE [watcher EXCEPT
                  !.tagged = Append(@, [path |-> it.path, etag |-> it.etag, tick |-> k]),
                  !.ticks[k].pc = "tagging"]
  /\ WatcherFrame

\* await this.tagger.tagPositivePrompt(remotePath) returns, then
\* this.seen[it.path] = { etag: it.etag, ts: Date.now() }
TagReturns(k) ==
  /\ watcher.pc = "on" /\ k \in 1..Len(watcher.ticks)
  /\ watcher.ticks[k].pc = "tagging"
  /\ LET tick == watcher.ticks[k]
         it == tick.files[tick.i]
     IN watcher' = [watcher EXCEPT !.seen[it.path] = it.etag,
                                   !.ticks[k].i = @ + 1,
                                   !.ticks[k].pc = "loop"]
  /\ WatcherFrame

\* tagPositivePrompt rejects (its download or its file id request fails):
\* the catch of tick() logs it, this.seen and the state file stay as they are
TagThrows(k) ==
  /\ watcher.pc = "on" /\ k \in 1..Len(watcher.ticks)
  /\ watcher.ticks[k].pc = "tagging"
  /\ watcher' = [watcher EXCEPT !.ticks[k].pc = "done"]
  /\ WatcherFrame

\* start(): await this.tick() is over, this.timer = setInterval(...)
SetInterval ==
  /\ watcher.pc = "on"
  /\ ~watcher.timer
  /\ watcher.ticks[1].pc = "done"
  /\ watcher' = [watcher EXCEPT !.timer = TRUE]
  /\ WatcherFrame

\* the interval elapses: () => this.tick().catch(() => {}), whatever the
\* ticks before it are doing
TimerTick ==
  /\ watcher.pc = "on"
  /\ watcher.timer
  /\ Len(watcher.ticks) < MaxTicks
  /\ watcher' = [watcher EXCEPT !.ticks = Append(@, NewTick)]
  /\ WatcherFrame

\* a watched file is written again on the server and gets another etag
RemoteChange ==
  /\ watcher.pc = "on"
  /\ watcher.changes < MaxChanges
  /\ \E p \in WatchedPaths, e \in Etags :
       /\ ~IsDir(p)
       /\ e # watcher.remote[p]
       /\ watcher' = [watcher EXCEPT !.remote[p] = e, !.changes = @ + 1]
  /\ WatcherFrame

WatcherNext ==
  \/ \E k \in 1..MaxTicks : PropfindRoot(k)
  \/ \E k \in 1..MaxTicks : PropfindChild(k)
  \/ \E k \in 1..MaxTicks : PropfindThrows(k)
  \/ \E k \in 1..MaxTicks : LoopStep(k)
  \/ \E k \in 1..MaxTicks : TagReturns(k)
  \/ \E k \in 1..MaxTicks : TagThrows(k)
  \/ SetInterval
  \/ TimerTick
  \/ RemoteChange

WatcherSpec == WatcherInit /\ [][WatcherNext]_vars

\* ================================================================= claims
Min(a, b) == IF a <= b THEN a ELSE b

LabelWrites == {"addLabel", "addLabel:error"}
MarkerWrites == {"addMarker", "addMarker:error"}

\* C1: under Spec, the number of tasks started and not yet finished is
\* activeCount, and it is never below 0 nor above the clamped concurrency.
C1_ActiveCountBounded ==
  /\ activeCount >= 0
  /\ activeCount <= concurrency
  /\ activeCount = Cardinality(Outstanding(taskState))

\* the ceiling of a pool of 2 is reached while a task waits in the queue
C1_Witness ==
  /\ concurrency = 2
  /\ activeCount = concurrency
  /\ Len(queue) > 0

\* C2: under Spec, every idle promise that was resolved was resolved in a
\* state with an empty queue, activeCount 0 and no enqueued task unfinished.
C2_IdleResolvedOnlyWhenIdle ==
  \A r \in resolvedLog : r.queued = 0 /\ r.active = 0 /\ r.unfinished = 0

\* a waiter that had to wait was released after a task enqueued by a running
\* task and a task enqueued by the error observer had both finished
C2_Witness ==
  \E r \in resolvedLog :
    /\ r.deferred
    /\ \E t \in r.done : enqueuedBy[t] = "task"
    /\ \E t \in r.done : enqueuedBy[t] = "observer"

\* C8: under Spec, a failed task is handed to the error observer (or to
\* console.error without one), its finally callback frees exactly one slot
\* and starts queued tasks as a successful one does, leaves every other
\* task alone, and no queued task waits while a slot is free.
C8_FailureIsolated ==
  /\ \A t \in TaskIds :
       taskState[t] = "caught" =>
         IF onError THEN t \in observed ELSE t \in consoleErrors
  /\ lastFinally.task # 0 =>
       /\ Len(lastFinally.started) =
            Min(concurrency - (lastFinally.before - 1), lastFinally.queuedBefore)
       /\ lastFinally.after = lastFinally.before - 1 + Len(lastFinally.started)
       /\ lastFinally.others
  /\ Len(queue) > 0 => Cardinality(Outstanding(taskState)) = concurrency

\* a failed task's finally callback started a queued task while a sibling
\* was still running
C8_Witness ==
  /\ lastFinally.task \in observed
  /\ lastFinally.failed
  /\ Len(lastFinally.started) > 0
  /\ \E u \in TaskIds : u \notin Range(lastFinally.started) /\ taskState[u] = "running"

\* C9: under Spec, the tasks started so far are the first tasks enqueued, in
\* the order of their enqueue calls.
C9_StartOrderIsEnqueueOrder ==
  /\ Len(startOrder) <= Len(enqueueOrder)
  /\ \A i \in 1..Len(startOrder) : startOrder[i] = enqueueOrder[i]

\* three tasks were started by a pool of 2, the second finished before the first
C9_Witness ==
  /\ concurrency = 2
  /\ Len(startOrder) = 3
  /\ taskState[2] = "done"
  /\ taskState[1] \notin {"done", "new"}

C4_LabelledAtMostOnce ==
  \A u \in UIDs :
    Cardinality({t \in TaskIds :
                   taskUid[t] = u /\ "addLabel" \in Range(opLog[t])}) <= 1

C6_NoMutationWithoutMetadata ==
  \A t \in TaskIds :
    "extract:none" \in Range(opLog[t]) =>
      Range(opLog[t]) \cap (LabelWrites \cup MarkerWrites) = {}

\* C7: under PollSpec, a task writes the marker only after it has attempted
\* every derived label, and no remote write follows the marker write.
C7_MarkerWrittenLast ==
  \A t \in TaskIds :
    \A i \in 1..Len(opLog[t]) :
      opLog[t][i] \in MarkerWrites =>
        /\ \E j \in 1..(i - 1) : opLog[t][j] \in LabelWrites
        /\ \A j \in (i + 1)..Len(opLog[t]) : opLog[t][j] \notin LabelWrites

\* C10: under PollSpec, while a query is in flight or the loop sleeps no task
\* is unfinished, and every unfinished task was enqueued by the current
\* cycle.
C10_CyclesDoNotOverlap ==
  /\ pollPc \in {"start", "listing", "sleep"} =>
       /\ Unfinished(taskState) = {}
       /\ queue = <<>>
       /\ activeCount = 0
  /\ \A t \in Unfinished(taskState) : taskCycle[t] = cycle

\* the query of the second cycle is in flight after a task of the first
\* cycle has finished
C10_Witness ==
  /\ cycle = 2
  /\ pollPc = "listing"
  /\ \E t \in TaskIds : taskCycle[t] = 1 /\ taskState[t] = "done"

\* C11: under PollSpec, the uids in flight are exactly the uids of the tasks
\* that were enqueued and have not ended (by returning, skipping or
\* throwing), and whenever the pool is idle nothing is in flight.
C11_InFlightRemovedAtEnd ==
  /\ inFlightPhotoUids =
       {taskUid[t] : t \in {x \in TaskIds :
                              taskState[x] \in {"queued", "started", "running"}}}
  /\ IdleCond(queue, activeCount) => inFlightPhotoUids = {}

\* the pool is idle after one task threw and another wrote a label
C11_Witness ==
  /\ IdleCond(queue, activeCount)
  /\ \E t \in TaskIds :
       /\ "throw" \in Range(opLog[t]) /\ t \in observed /\ taskState[t] = "done"
  /\ \E t \in TaskIds :
       /\ "addLabel" \in Range(opLog[t]) /\ taskState[t] = "done"

\* C12: under PollSpec, the wait computed after a cycle is
\* max(0, pollIntervalMs - elapsedMs) and is never negative, and when the
\* sleep has ended at least pollIntervalMs have passed since the cycle
\* started, so that the next cycle starts no sooner.
C12_CyclePacing ==
  /\ pollPc \in {"sleep", "start"} /\ cycle >= 1 =>
       /\ elapsedMs >= 0
       /\ waitMs >= 0
       /\ waitMs = IF elapsedMs >= pollIntervalMs THEN 0
                   ELSE pollIntervalMs - elapsedMs
  /\ pollPc = "start" /\ cycle >= 1 => clock - startedAt >= pollIntervalMs

\* a cycle took longer than the interval: no wait, the next cycle may start
C12_Witness ==
  /\ pollPc = "start"
  /\ cycle >= 1
  /\ elapsedMs > pollIntervalMs
  /\ waitMs = 0
  /\ \E t \in TaskIds : taskCycle[t] = cycle /\ taskState[t] = "done"

\* C13: under PollSpec, a cycle whose caption-empty query failed enqueues no
\* task, its idle wait is over at once, its wait follows the pacing rule, and
\* the polling loop goes on to the next cycle.
C13_QueryFailureContinues ==
  /\ \A t \in TaskIds : taskCycle[t] \notin queryFailed
  /\ cycle \in queryFailed =>
       /\ pollPc \in {"enqueued", "awaitIdle", "sleep", "start"}
       /\ IdleCond(queue, activeCount)
       /\ PollerWaiter \notin Range(idleResolvers)
       /\ pollPc \in {"sleep", "start"} =>
            /\ waitMs = WaitMs(pollIntervalMs, elapsedMs)
            /\ pollPc = "start" => clock - startedAt >= pollIntervalMs
  /\ \A c \in queryFailed : c <= cycle

\* the query of the first cycle failed, the second cycle was started and has
\* enqueued a task
C13_Witness ==
  /\ 1 \in queryFailed
  /\ cycle = 2
  /\ pollPc = "enqueued"
  /\ \E t \in TaskIds : taskCycle[t] = 2

\* the entries of a task's log that are writes of a derived label
LabelEntries(t) == {i \in 1..Len(opLog[t]) : opLog[t][i] \in LabelWrites}

\* C14: under PollSpec, a task in which the write of a derived label failed
\* goes on: when it has ended it has attempted every one of its labels and
\* the marker label, it did not throw and it was not handed to the error
\* observer.
C14_LabelFailureDoesNotAbort ==
  \A t \in TaskIds :
    "addLabel:error" \in Range(opLog[t]) =>
      /\ taskState[t] \in {"running", "fulfilled", "done"}
      /\ t \notin observed
      /\ "throw" \notin Range(opLog[t])
      /\ Cardinality(LabelEntries(t)) + labelsLeft[t] = labelCount[t]
      /\ taskPc[t] \in {"end", "ended"} =>
           /\ Cardinality(LabelEntries(t)) = labelCount[t]
           /\ \E i \in 1..Len(opLog[t]) : opLog[t][i] \in MarkerWrites

\* the first of two label writes failed, the second one and the marker write
\* after it succeeded, and the task has finished
C14_Witness ==
  \E t \in TaskIds :
    /\ labelCount[t] = 2
    /\ \E i \in 1..Len(opLog[t]) :
         /\ opLog[t][i] = "addLabel:error"
         /\ i + 2 <= Len(opLog[t])
         /\ opLog[t][i + 1] = "addLabel"
         /\ opLog[t][i + 2] = "addMarker"
    /\ taskState[t] = "done"

\* C15: under TextSpec, removeWeights applied to its own result returns that
\* result unchanged.
C15_RemoveWeightsIdempotent ==
  fn = "removeWeights" => removeWeights(out) = out

\* the functions the token normalizer is made of
TokenNormalizers == {"parsePositivePromptLabels", "promptToTags"}

\* C16: under TextSpec, the list a token normalizer returns has no two labels
\* that are equal when compared case-insensitively, and "Cat, cat, DOG"
\* yields ["cat", "dog"].
C16_LabelsDistinct ==
  fn \in TokenNormalizers =>
    /\ \A i, j \in 1..Len(out) : i < j => Lower(out[i]) # Lower(out[j])
    /\ text = CatCatDog => out = <<<<"c", "a", "t">>, <<"d", "o", "g">>>>

\* C17: under TextSpec, every label a token normalizer returns has at least
\* 2 characters and is not a stopword.
C17_LabelsLongEnoughAndNotStopwords ==
  fn \in TokenNormalizers =>
    \A i \in 1..Len(out) : Len(out[i]) >= 2 /\ out[i] \notin stopwords

\* C18: under TextSpec, parsing the parameters text of the standard-dialect
\* scenario yields positive "a cat, (tree)", negative "blurry", steps 20,
\* sampler "Euler a", cfg 7, seed 42, size 512x512 and model
\* "foo.safetensors".
C18_StandardDialectScenario ==
  (fn = "parseA1111ParametersBlock" /\ text = ScenarioParameters) =>
    /\ {"positive", "negative", "steps", "sampler", "cfg", "seed", "size",
        "model"} \subseteq DOMAIN out
    /\ out["positive"] = ScenarioPrompt
    /\ out["negative"] = <<"b", "l", "u", "r", "r", "y">>
    /\ out["steps"] = Num(20)
    /\ out["sampler"] = <<"E", "u", "l", "e", "r", " ", "a">>
    /\ out["cfg"] = Num(7)
    /\ out["seed"] = Num(42)
    /\ out["size"] = [width |-> Num(512), height |-> Num(512)]
    /\ out["model"] = SubSeq(ScenarioModel, 8, Len(ScenarioModel))

\* the scenario's text was parsed and a result with a negative prompt and a
\* size came back
C18_Witness ==
  /\ fn = "parseA1111ParametersBlock"
  /\ text = ScenarioParameters
  /\ {"negative", "size"} \subseteq DOMAIN out

Cat == <<"c", "a", "t">>
ACat == <<"a", " ", "c", "a", "t">>
Tree == <<"t", "r", "e", "e">>
FooSafetensors ==
  <<"f", "o", "o", "s", "a", "f", "e", "t", "e", "n", "s", "o", "r", "s">>

\* C19 as stated: under TextSpec, the labels of the prompt "a cat, (tree)"
\* contain "cat" and "tree", and the model label of "Model: foo.safetensors"
\* is "foosafetensors".
C19_ScenarioLabels ==
  /\ (fn = "parsePositivePromptLabels" /\ text = ScenarioPrompt) =>
       Cat \in Range(out) /\ Tree \in Range(out)
  /\ (fn = "parseModelPromptLabel" /\ text \in {ScenarioModel, ScenarioParameters}) =>
       out = FooSafetensors

\* C19 amended: under TextSpec, the labels of the prompt "a cat, (tree)" are
\* "a cat" and "tree", in this order, so "cat" is not among them; the model
\* label of "Model: foo.safetensors", alone or at the end of the scenario's
\* parameters text, is "foosafetensors".
C19_ScenarioLabelsAmended ==
  /\ (fn = "parsePositivePromptLabels" /\ text = ScenarioPrompt) =>
       out = <<ACat, Tree>>
  /\ (fn = "parseModelPromptLabel" /\ text \in {ScenarioModel, ScenarioParameters}) =>
       out = FooSafetensors

\* the labels of the scenario's prompt were derived
C19_Witness ==
  /\ fn = "parsePositivePromptLabels"
  /\ text = ScenarioPrompt
  /\ Len(out) = 2

\* C20: under Spec, a pool constructed with a value below 1 has the ceiling
\* 1: at most one task is started and not finished, and a task waits in the
\* queue only while another one is started and not finished.
C20_ClampedToOne ==
  requested < 2 =>
    /\ concurrency = 1
    /\ activeCount <= 1
    /\ Cardinality(Outstanding(taskState)) <= 1
    /\ Len(queue) > 0 => activeCount = 1

\* a pool constructed with a value below 1 has finished a task, runs another
\* one and holds a third in its queue
C20_Witness ==
  /\ requested < 2
  /\ \E t \in TaskIds : taskState[t] = "done"
  /\ activeCount = 1
  /\ Len(queue) > 0

\* the waiters whose idle promise has been resolved
ResolvedWaiters(log) == {e.waiter : e \in log}

\* C21: under Spec, a step that leaves the pool idle (empty queue, no active
\* task) resolves every idle promise that was pending before it and leaves
\* none pending, and an onIdle() call made while the pool is idle is resolved
\* by the call itself.
C21_IdleWaitersReleasedTogether ==
  [][/\ (Len(queue') = 0 /\ activeCount' = 0) =>
          /\ idleResolvers' = <<>>
          /\ Range(idleResolvers) \subseteq
               ResolvedWaiters(resolvedLog') \ ResolvedWaiters(resolvedLog)
     /\ (nextWaiter' # nextWaiter /\ Len(queue) = 0 /\ activeCount = 0) =>
          /\ nextWaiter \in ResolvedWaiters(resolvedLog')
          /\ idleResolvers' = idleResolvers]_vars

\* two idle promises that were pending have been resolved at the same idle
\* point, and the next onIdle() call can be made on the idle pool
C21_Witness ==
  /\ \E a, b \in resolvedLog :
       a.waiter # b.waiter /\ a.deferred /\ b.deferred /\ a.done = b.done
  /\ Len(queue) = 0 /\ activeCount = 0 /\ idleResolvers = <<>>

\* C22: under PollSpec, no task is enqueued for a listed photo whose file
\* name has no supported image extension; the uids in flight are the uids
\* of the unfinished tasks, so such a photo adds nothing to them.
C22_UnsupportedFileSkipped ==
  /\ \A t \in 1..(nextTask - 1) :
       /\ Len(taskFile[t]) >= 2
       /\ ToLowerCase(taskFile[t][Len(taskFile[t])]) \in {"png", "webp", "jpg", "jpeg"}
  /\ inFlightPhotoUids \subseteq {taskUid[t] : t \in Unfinished(taskState)}

\* a photo whose extension is written in upper case was enqueued and is in
\* flight
C22_Witness ==
  \E t \in Unfinished(taskState) :
    /\ taskFile[t] = <<"a", "PNG">>
    /\ taskUid[t] \in inFlightPhotoUids

\* the answers that yield no uid
NoUid == {"error", "none", ""}

\* C23: under LookupSpec, waitForPhotoUidByFilename issues at most attempts
\* lookups; every lookup before the last one it issued failed or yielded no
\* uid; when it has returned a uid, this is the non-empty uid of its last
\* lookup; when it has returned null, all attempts lookups were issued and
\* none yielded a uid, and processFile writes no label.
C23_LookupBudget ==
  LET n == Len(lookup.log)
      returned == lookup.pc \in {"returned", "labels", "done"}
  IN /\ n <= lookup.attempts
     /\ \A k \in 1..(n - 1) : lookup.log[k] \in NoUid
     /\ (returned /\ lookup.result # NullUid) =>
          /\ n >= 1
          /\ lookup.log[n] \in UIDs
          /\ lookup.result = lookup.log[n]
     /\ (returned /\ lookup.result = NullUid) =>
          /\ n = lookup.attempts
          /\ \A k \in 1..n : lookup.log[k] \in NoUid
          /\ lookup.writes = 0
     /\ ~returned => lookup.writes = 0

\* the budget was used up by a failed request, an empty response and a
\* blank uid, and processFile has ended without a label write
C23_Witness ==
  /\ lookup.pc = "done"
  /\ lookup.result = NullUid
  /\ lookup.attempts = 3
  /\ {"error", "none", ""} \subseteq Range(lookup.log)
  /\ lookup.writes = 0

\* the last two size reads are equal
StableReads(reads) ==
  /\ Len(reads) >= 2
  /\ reads[Len(reads)] # Gone
  /\ reads[Len(reads)] = reads[Len(reads) - 1]

\* the last size read failed
GoneRead(reads) == Len(reads) >= 1 /\ reads[Len(reads)] = Gone

\* C24 (safety part): waitForStable has returned exactly when the last two
\* size reads are equal, or the last read failed, or the loop test found the
\* timeout elapsed; no read before the last one ended the wait; it has not
\* returned on a first read that succeeded before the timeout.
C24_ReturnCause ==
  LET n == Len(stable.reads)
  IN /\ (StableReads(stable.reads) \/ GoneRead(stable.reads)) => stable.pc = "returned"
     /\ stable.pc = "returned" =>
          \/ StableReads(stable.reads)
          \/ GoneRead(stable.reads)
          \/ stable.now - stable.start >= stable.timeoutMs
     /\ \A k \in 1..(n - 1) :
          ~StableReads(SubSeq(stable.reads, 1, k)) /\ ~GoneRead(SubSeq(stable.reads, 1, k))

\* C24: under StableFairSpec, waitForStable always returns, and it returns
\* for one of its three causes, as soon as the cause is there.
C24_WaitForStableReturns ==
  [](stable.pc # "off" => C24_ReturnCause) /\ <>(stable.pc = "returned")

\* the sizes kept changing and the wait ended by its timeout after three
\* reads
C24_Witness ==
  /\ stable.pc = "returned"
  /\ Len(stable.reads) = 3
  /\ ~StableReads(stable.reads)
  /\ ~GoneRead(stable.reads)

\* the first of the results that is a record, null when none is
RECURSIVE FirstAccepted(_)
FirstAccepted(results) ==
  IF results = <<>> THEN Null
  ELSE IF Head(results) # Null THEN Head(results)
  ELSE FirstAccepted(Tail(results))

\* what each dialect makes of a text map, in the order standard, loose
\* variants, structured, free-form, whole-map; null for a dialect that does
\* not apply to the map
DialectResults(textMap) ==
  LET lower == LowerEntries(textMap, <<>>)
      values == Values(lower)
  IN <<IF HasParameters(lower) THEN StandardResult(lower) ELSE Null,
       LooseResult(lower, LooseKeys),
       JsonResult(values),
       IF WithNeg(values) # <<>> THEN FreeFormResult(values) ELSE Null,
       WholeMapResult(values)>>

\* C25 as stated: under MapSpec, the metadata format parser returns the
\* result of the first dialect, in the order standard, loose variants,
\* structured, free-form, whole-map, that yields a record (a non-empty
\* trimmed positive field), and null when no dialect yields one.
C25_DialectFallThrough ==
  fn = "pickFromTextMap" => out = WithRaw(FirstAccepted(DialectResults(text)), text)

\* C26: under MapSpec, every record returned by the metadata format parser
\* or by one of its dialect parsers has a positive field that is not empty
\* after trimming.
C26_PositivePresent ==
  (fn # "none" /\ out # Null) =>
    /\ "positive" \in DOMAIN out
    /\ Trim(out["positive"]) # <<>>

\* the structured dialect returned a record, and so did the parser as a
\* whole
C26_Witness ==
  /\ fn \in {"parseFromJson", "pickFromTextMap"}
  /\ out # Null
  /\ \E i \in 1..Len(text) : text[i].v = JsonFull

\* C27: under TextSpec, parseHeaderLine finds the same steps, sampler, cfg,
\* seed, size and model in a header line, in the line with its
\* comma-separated segments in any other order, and in the line with the
\* keys of its segments in other letter case.
UpperChar(c) ==
  IF \E i \in 1..26 : LowerCase[i] = c
  THEN UpperCase[CHOOSE i \in 1..26 : LowerCase[i] = c]
  ELSE c

\* the comma-separated segments of a header line
SegmentsOf(line) == NonEmpty(SplitAround(line, ","))

\* a segment with the letters of its key in upper or in lower case
KeyInCase(segment, upper) ==
  LET colons == {i \in 1..Len(segment) : segment[i] = ":"}
      colon == IF colons = {} THEN Len(segment) + 1 ELSE SetMin(colons)
  IN [i \in 1..Len(segment) |->
        IF i >= colon THEN segment[i]
        ELSE IF upper THEN UpperChar(segment[i]) ELSE LowerChar(segment[i])]

Rearrangements(line) ==
  LET segments == SegmentsOf(line)
      n == Len(segments)
  IN {HeaderLineOf([i \in 1..n |-> segments[p[i]]]) : p \in Permutations(1..n)}

KeyCases(line) ==
  LET segments == SegmentsOf(line)
      n == Len(segments)
  IN {HeaderLineOf([i \in 1..n |-> KeyInCase(segments[i], upper[i])]) :
        upper \in [1..n -> BOOLEAN]}

SameInAnyOrder ==
  fn = "parseHeaderLine" =>
    \A line \in Rearrangements(text) : parseHeaderLine(line) = out

SameInAnyKeyCase ==
  fn = "parseHeaderLine" =>
    \A line \in KeyCases(text) : parseHeaderLine(line) = out

C27_OrderAndKeyCaseInsensitive == SameInAnyOrder /\ SameInAnyKeyCase

\* C28: under TextSpec, when parseA1111ParametersBlock returns a record for
\* a block in which no line break follows the text after "Negative
\* prompt:", the negative prompt of the record is all of that text and the
\* record has none of steps, sampler, cfg, seed, size and model.
HeaderFields == {"steps", "sampler", "cfg", "seed", "size", "model"}

\* the text after "Negative prompt:", when the block has the marker
Remainder(raw) == SplitNegativePrompt(raw)[2]

NegativeEndsBlock(raw) ==
  /\ Len(SplitNegativePrompt(raw)) = 2
  /\ Remainder(raw) # <<>>
  /\ \A i \in 1..Len(Remainder(raw)) : Remainder(raw)[i] \notin {"\n", "\r"}

RemainderIsNegative ==
  (fn = "parseA1111ParametersBlock" /\ NegativeEndsBlock(text) /\ out # Null) =>
    /\ "negative" \in DOMAIN out
    /\ out.negative = Trim(removeWeights(Trim(Remainder(text))))

NoHeaderParsed ==
  (fn = "parseA1111ParametersBlock" /\ NegativeEndsBlock(text) /\ out # Null) =>
    DOMAIN out \cap HeaderFields = {}

C28_NoHeaderWithoutLineBreak == RemainderIsNegative /\ NoHeaderParsed

\* C29: under TextSpec, when every steps segment of a header line has a
\* value that is no number, the record parseHeaderLine returns has no steps,
\* and the same for cfg.
SegmentKey(segment) == Lower(SplitAround(segment, ":")[1])
SegmentValue(segment) == Trim(Join(Tail(SplitAround(segment, ":")), ":"))

\* the line has segments for the field, and none of their values is a number
OnlyWords(line, key) ==
  LET segments == SegmentsOf(line)
      named == {i \in 1..Len(segments) : StartsWith(SegmentKey(segments[i]), key)}
  IN /\ named # {}
     /\ \A i \in named : NumberOf(SegmentValue(segments[i])).nan

C29_UnparsedNumberAbsent ==
  fn = "parseHeaderLine" =>
    /\ OnlyWords(text, Steps) => "steps" \notin DOMAIN out
    /\ OnlyWords(text, Cfg) => "cfg" \notin DOMAIN out

\* C30: under ChunkSpec, the map parseAllPngTextChunks returns is the map of
\* the buffer without its compressed-text chunks whose compression-method
\* byte is not 0: such a chunk adds no key and no text.
UnknownMethod(ch) ==
  \/ /\ ch.name = "zTXt"
     /\ IndexOfZero(ch.data, 0) > 0
     /\ ByteAt(ch.data, IndexOfZero(ch.data, 0) + 1) \notin {0, NoByte}
  \/ /\ ch.name = "iTXt"
     /\ ITXtFields(ch.data).compFlag \notin {0, NoByte}
     /\ ITXtFields(ch.data).compMethod \notin {0, NoByte}

KnownMethods(chunks) == SelectSeq(chunks, LAMBDA ch : ~UnknownMethod(ch))

C30_UnknownMethodIgnored ==
  fn = "parseAllPngTextChunks" => out = parseAllPngTextChunks(KnownMethods(text))

\* C31: under ChunkSpec, no key of the map parseAllPngTextChunks returns is
\* the empty string.
C31_NoEmptyKey ==
  fn = "parseAllPngTextChunks" => \A i \in 1..Len(out) : out[i].k # <<>>

\* C32: under Spec, every task handed to enqueue is in the queue or was
\* shifted from it, never both and never twice, and its task function is
\* called only after the shift and only once: a task becomes started only
\* when it is enqueued or queued, and running only from started.
Occurrences(list, x) == Cardinality({i \in 1..Len(list) : list[i] = x})

EnqueuedOnceHeld ==
  \A t \in TaskIds :
    /\ Occurrences(enqueueOrder, t) = IF t < nextTask THEN 1 ELSE 0
    /\ Occurrences(queue, t) + Occurrences(startOrder, t) = Occurrences(enqueueOrder, t)
    /\ taskState[t] = "queued" <=> Occurrences(queue, t) = 1
    /\ taskState[t] \notin {"new", "queued"} <=> Occurrences(startOrder, t) = 1

InvokedOnce ==
  \A t \in TaskIds :
    /\ (taskState'[t] = "started" /\ taskState[t] # "started") =>
         /\ taskState[t] \in {"new", "queued"}
         /\ Occurrences(startOrder, t) = 0
    /\ (taskState'[t] = "running" /\ taskState[t] # "running") => taskState[t] = "started"
    /\ taskState[t] \notin {"new", "queued", "started"} =>
         taskState'[t] \notin {"new", "queued", "started"}

C32_InvokedExactlyOnce == []EnqueuedOnceHeld /\ [][InvokedOnce]_vars

\* all tasks were enqueued, some by a running task, and all have run to
\* their end
C32_Witness ==
  /\ nextTask > MaxTasks
  /\ \E t \in TaskIds : enqueuedBy[t] = "task"
  /\ \A t \in TaskIds : taskState[t] = "done"
  /\ Len(startOrder) = MaxTasks

\* C33: under FairSpec, where every started task settles and the enqueue
\* and onIdle calls come to an end, from some time on every task handed to
\* enqueue has been started and every idle promise has been resolved.
AllStartedAndResolved ==
  /\ \A t \in TaskIds : t < nextTask => t \in Range(startOrder)
  /\ \A w \in 1..MaxWaiters :
       w < nextWaiter => w \in ResolvedWaiters(resolvedLog)

C33_QueuedStartedAndWaitersResolved == <>[]AllStartedAndResolved

\* a finally callback started a task that had waited in the queue, and an
\* idle promise that had to wait was resolved
C33_Witness ==
  /\ lastFinally.started # <<>>
  /\ \E e \in resolvedLog : e.deferred
  /\ Len(startOrder) = MaxTasks

\* C34: under PollSpec, while a poll cycle waits for the answer to its
\* query the in-flight set is empty, and whatever list the query yields, the
\* loop of runPollCycle skips no photo as already in flight.
C34_InFlightSkipNeverTaken ==
  pollPc = "listing" =>
    /\ inFlightPhotoUids = {}
    /\ \A ok \in BOOLEAN : \A captionlessPhotos \in PossibleLists(ok) :
         CycleLoop(captionlessPhotos, CycleStart).alreadyInFlight = 0

\* a later cycle is about to run its loop, after a task of the first cycle
\* threw
C34_Witness ==
  /\ pollPc = "listing"
  /\ cycle >= 2
  /\ inFlightPhotoUids = {}
  /\ \E t \in TaskIds : taskCycle[t] = 1 /\ t \in observed

\* C35: under ListSpec, the list listCaptionlessPhotos returns has no uid
\* twice, and every entry of it has a uid and a file name that are not
\* empty.
C35_ListedOnceAndComplete ==
  fn \in {"listCaptionlessPhotos", "listCaptionlessPhotos failed"} =>
    /\ \A i, j \in 1..Len(out) : out[i].uid = out[j].uid => i = j
    /\ \A i \in 1..Len(out) : out[i].uid \notin {"", " "} /\ out[i].filename # <<>>

\* the response names a photo twice, once with white space around the uid,
\* and a blank uid, and the photo is listed
C35_Witness ==
  /\ fn = "listCaptionlessPhotos"
  /\ Len(text.items) = 2
  /\ text.items[1].UID = "u1"
  /\ text.items[2].UID \in {" u1", "u1"}
  /\ Len(out) = 1

\* C36: under PollSpec, a marker read that fails makes hasLabel return
\* false: the step in which the failed read is answered leaves the task
\* running, at the resolution of its file, whether or not the photo carries
\* the marker.
FailedReadAnswered(t) ==
  /\ Len(opLog'[t]) = Len(opLog[t]) + 1
  /\ opLog'[t][Len(opLog'[t])] = "hasLabel:error"

C36_FailedReadMeansNotMarked ==
  [][\A t \in TaskIds :
       FailedReadAnswered(t) => taskPc'[t] = "resolve" /\ taskState'[t] = "running"]_vars

\* the marker read of a photo that carries the marker failed, and the task
\* went on to resolve the file
C36_Witness ==
  \E t \in TaskIds :
    /\ Len(opLog[t]) >= 2
    /\ opLog[t][1] = "hasLabel:error"
    /\ opLog[t][2] = "resolve"
    /\ taskUid[t] \in remoteMarker

\* C37: under PollSpec, in a poll cycle whose candidates all carried the
\* marker before the cycle began and whose marker reads all succeed, every
\* task makes its one marker read and nothing else: the cycle makes no
\* remote write.
\* the photos that carried the marker before cycle c began: marked from the
\* beginning, or by a task of an earlier cycle
MarkedBefore(c) ==
  {u \in remoteMarker :
     \/ \A t \in TaskIds : taskUid[t] = u => "addMarker" \notin Range(opLog[t])
     \/ \E t \in TaskIds :
          taskUid[t] = u /\ taskCycle[t] < c /\ "addMarker" \in Range(opLog[t])}

TasksOf(c) == {t \in TaskIds : taskCycle[t] = c}

C37_NoWriteOnceMarked ==
  \A c \in 1..MaxCycles :
    (\A t \in TasksOf(c) :
       taskUid[t] \in MarkedBefore(c) /\ "hasLabel:error" \notin Range(opLog[t])) =>
      \A t \in TasksOf(c) : opLog[t] \in {<<>>, <<"hasLabel:true">>}

\* a task of the second cycle has read the marker that a task of the
\* first cycle wrote, and has ended
C37_Witness ==
  \E t, u \in TaskIds :
    /\ taskCycle[u] = 1 /\ "addMarker" \in Range(opLog[u])
    /\ taskCycle[t] = 2 /\ taskUid[t] = taskUid[u]
    /\ opLog[t] = <<"hasLabel:true">>
    /\ taskState[t] = "done"
    /\ \A x \in TasksOf(2) : x = t

\* C38: under WatcherSpec, tagPositivePrompt is invoked at most once for a
\* path with a given etag: no two invocations carry the same path and the
\* same etag.
C38_TaggedOncePerEtag ==
  \A m, n \in 1..Len(watcher.tagged) :
    m # n => \/ watcher.tagged[m].path # watcher.tagged[n].path
             \/ watcher.tagged[m].etag # watcher.tagged[n].etag

====
